---- MODULE Spec2Model ----
(***************************************************************************)
(* Intent classification and coreference resolution of the financial      *)
(* assistant: IntentRecognizer.analyze (src/core/intent_recognizer.py)     *)
(* with its helpers, as one call of analyze on bounded inputs.             *)
(*                                                                         *)
(* Conventions of the model                                                *)
(*  - A Python str is a sequence of characters; a character is a TLA+      *)
(*    string: an ASCII character stands for itself ("6", ".", "S"), a      *)
(*    Chinese character is named by its pinyin ("mao", "tai" for the two   *)
(*    characters of the stock name Maotai), with a digit where two         *)
(*    characters share a pinyin.  The comments of the tables give the      *)
(*    original text.                                                       *)
(*  - None (as the result of dict.get, or a JSON null) is the sequence     *)
(*    None below when a str is expected, and "None" when an atom (an       *)
(*    intent or entity type name) is expected.                             *)
(*  - A Python dict is a record holding exactly the keys the dict has;     *)
(*    an object that is not a dict is a record with the key pytype.        *)
(*  - Scores are exact rationals scaled by Scale; a confidence is          *)
(*    Num(scaled value), or NotANumber for a value that is not a number.   *)
(*  - Exceptions are those of class Exception (TypeError, AttributeError,  *)
(*    KeyError, ValueError, the errors of the classifier call).            *)
(***************************************************************************)
EXTENDS Integers, Sequences, FiniteSets, TLC

VARIABLES
    query,          \* argument query of analyze
    history,        \* argument history of analyze
    coreferences,   \* argument coreferences of analyze
    llm,            \* behaviour of the external classifier during the call
    analysis,       \* the dict analyze builds and returns
    frame,          \* local variables of the call, as they are at its end
    pc,             \* "call": analyze not yet run; "invoke": blocked in the
                    \* classifier call; "returned"; "raised"
    stock_mapping,  \* the file data/stock_mapping.csv
    stocks,         \* self.entity_dict['stocks']
    loader,         \* _load_stock_mapping: where it stands (pc), the line it
                    \* reads next (row), whether it caught an error (failed)
    conversation,   \* the Redis list conversation:{user_id}, newest turn first
    conversation_ttl,   \* whether the key conversation:{user_id} has a time
                    \* to live
    session_coreferences,   \* the Redis set session:{user_id}:coreferences
    now,            \* the clock read by datetime.now(): each store call reads
                    \* a later time than the call before it
    turn,           \* the number of process_query calls begun
    written         \* what the last write-back of process_query did: the
                    \* branch it took (kind) and the bindings it added

vars == <<query, history, coreferences, llm, analysis, frame, pc,
          stock_mapping, stocks, loader,
          conversation, conversation_ttl, session_coreferences, now, turn, written>>

----------------------------------------------------------------------------
(* Bounds of the model *)

\* most tokens of the lexicon a query is made of
MaxTokens == 2

\* most bindings in a coreference list
MaxCorefs == 2

\* timestamps of bindings are 1..MaxTime (0 stands for a missing timestamp)
MaxTime == 2

\* most lines of the stock mapping file
MaxLines == 3

\* most calls of process_query
MaxTurns == 2

\* the configured max_history_rounds of RedisSessionManager (5 by default)
max_history_rounds == 1

----------------------------------------------------------------------------
(* Python values *)

None == <<"None">>

\* bool(v) of a str or None
Truthy(v) == v # None /\ v # <<>>

IsDict(x) == "pytype" \notin DOMAIN x

\* d.get(k, default)
Get(d, k, default) == IF k \in DOMAIN d THEN d[k] ELSE default

\* d[k] = v
Put(d, k, v) == [x \in DOMAIN d \cup {k} |-> IF x = k THEN v ELSE d[x]]

\* d.update(e)
Update(d, e) == [x \in DOMAIN d \cup DOMAIN e |-> IF x \in DOMAIN e THEN e[x] ELSE d[x]]

Min(a, b) == IF a <= b THEN a ELSE b

\* exact rationals: a score s of the program is the integer s * Scale
Scale == 504 * 1000

Num(n) == [isnum |-> TRUE, v |-> n]

NotANumber == [isnum |-> FALSE, v |-> 0]

----------------------------------------------------------------------------
(* str operations *)

\* p in s
Contains(s, p) ==
    \E i \in 1..(Len(s) - Len(p) + 1) : SubSeq(s, i, i + Len(p) - 1) = p

\* s.find(p): 0-based index of the first occurrence, -1 when there is none
Find(s, p) ==
    IF Contains(s, p)
    THEN (CHOOSE i \in 1..(Len(s) - Len(p) + 1) :
             /\ SubSeq(s, i, i + Len(p) - 1) = p
             /\ \A j \in 1..(i - 1) : SubSeq(s, j, j + Len(p) - 1) # p) - 1
    ELSE -1

RECURSIVE ReplaceFrom(_, _, _, _)
ReplaceFrom(s, p, v, i) ==
    IF i > Len(s) THEN <<>>
    ELSE IF i + Len(p) - 1 <= Len(s) /\ SubSeq(s, i, i + Len(p) - 1) = p
         THEN v \o ReplaceFrom(s, p, v, i + Len(p))
         ELSE <<s[i]>> \o ReplaceFrom(s, p, v, i + 1)

\* s.replace(p, v) for a non-empty p: the non-overlapping occurrences of p,
\* left to right
Replace(s, p, v) == ReplaceFrom(s, p, v, 1)

StartsWithAny(s, cs) == Len(s) > 0 /\ s[1] \in cs

DigitChars == {"0", "1", "2", "3", "4", "5", "6", "7", "8", "9"}

\* characters of the model that \w does not match
NonWordChars == {".", "?", " "}

IsWordChar(c) == c \notin NonWordChars

\* s.isdigit()
IsDigitStr(s) == Len(s) > 0 /\ \A i \in 1..Len(s) : s[i] \in DigitChars

LowerOf ==
    [ A |-> "a", B |-> "b", C |-> "c", D |-> "d", E |-> "e", F |-> "f",
      G |-> "g", H |-> "h", I |-> "i", J |-> "j", K |-> "k", L |-> "l",
      M |-> "m", N |-> "n", O |-> "o", P |-> "p", Q |-> "q", R |-> "r",
      S |-> "s", T |-> "t", U |-> "u", V |-> "v", W |-> "w", X |-> "x",
      Y |-> "y", Z |-> "z" ]

LowerChar(c) == IF c \in DOMAIN LowerOf THEN LowerOf[c] ELSE c

\* s.lower()
Lower(s) == [i \in 1..Len(s) |-> LowerChar(s[i])]

\* the concatenation of a sequence of sequences
RECURSIVE Concat(_)
Concat(ss) == IF ss = <<>> THEN <<>> ELSE Head(ss) \o Concat(Tail(ss))

\* list.sort(key=..., reverse=True): items by descending key, items of equal
\* key in their original order (the sort is stable); keys[i] is the key of
\* items[i]
StableSortDesc(items, keys) ==
    LET n == Len(items)
        Before(i, j) == keys[i] > keys[j] \/ (keys[i] = keys[j] /\ i < j)
        Rank(i) == Cardinality({j \in 1..n : Before(j, i)}) + 1
    IN  [r \in 1..n |-> items[CHOOSE i \in 1..n : Rank(i) = r]]

----------------------------------------------------------------------------
(* Regular expressions of intent_patterns: a pattern is a sequence of       *)
(* elements, .* (AnyChars), (\w+) (WordChars), (\d+) (Digits) and a         *)
(* literal or an alternation of literals (Lit).                             *)

AnyChars == [k |-> "any", alts |-> {}]

WordChars == [k |-> "w", alts |-> {}]

Digits == [k |-> "d", alts |-> {}]

Lit(A) == [k |-> "lit", alts |-> A]

\* the elements i.. of re match s from position j on (to any position)
RECURSIVE MatchFrom(_, _, _, _)
MatchFrom(re, s, i, j) ==
    IF i > Len(re) THEN TRUE
    ELSE LET e == re[i] IN
         CASE e.k = "any" ->
                \E n \in j..(Len(s) + 1) : MatchFrom(re, s, i + 1, n)
           [] e.k = "w" ->
                \E n \in (j + 1)..(Len(s) + 1) :
                    /\ \A m \in j..(n - 1) : IsWordChar(s[m])
                    /\ MatchFrom(re, s, i + 1, n)
           [] e.k = "d" ->
                \E n \in (j + 1)..(Len(s) + 1) :
                    /\ \A m \in j..(n - 1) : s[m] \in DigitChars
                    /\ MatchFrom(re, s, i + 1, n)
           [] e.k = "lit" ->
                \E a \in e.alts :
                    /\ j + Len(a) - 1 <= Len(s)
                    /\ \A m \in 1..Len(a) : LowerChar(s[j + m - 1]) = LowerChar(a[m])
                    /\ MatchFrom(re, s, i + 1, j + Len(a))

\* re.search(pattern, s, re.IGNORECASE)
ReSearch(re, s) == \E j \in 1..(Len(s) + 1) : MatchFrom(re, s, 1, j)

----------------------------------------------------------------------------
(* self.intent_patterns and self.entity_dict *)

\* 'market_news': keywords ['新闻', '要闻', '资讯', '动态', '消息', '头条', '快讯']
\* patterns: len is len(pattern), dotstar is '.*' in pattern
\* priority in tenths
Config_market_news ==
    [ keywords |->
          << <<"xin", "wen">>,
             <<"yao", "wen">>,
             <<"zi", "xun2">>,
             <<"dong", "tai2">>,
             <<"xiao", "xi">>,
             <<"tou2", "tiao">>,
             <<"kuai", "xun2">> >>,
      patterns |->
          << \* .*今日.*财经.*新闻
             [len |-> 12, dotstar |-> TRUE,
              re |-> << AnyChars,
                        Lit({<<"jin", "ri">>}),
                        AnyChars,
                        Lit({<<"cai", "jing">>}),
                        AnyChars,
                        Lit({<<"xin", "wen">>}) >>],
             \* .*最新.*市场.*动态
             [len |-> 12, dotstar |-> TRUE,
              re |-> << AnyChars,
                        Lit({<<"zui", "xin">>}),
                        AnyChars,
                        Lit({<<"shi", "chang">>}),
                        AnyChars,
                        Lit({<<"dong", "tai2">>}) >>],
             \* .*有什么.*新闻
             [len |-> 9, dotstar |-> TRUE,
              re |-> << AnyChars,
                        Lit({<<"you", "shen2", "me">>}),
                        AnyChars,
                        Lit({<<"xin", "wen">>}) >>],
             \* .*财经.*消息
             [len |-> 8, dotstar |-> TRUE,
              re |-> << AnyChars,
                        Lit({<<"cai", "jing">>}),
                        AnyChars,
                        Lit({<<"xiao", "xi">>}) >>],
             \* .*市场.*资讯
             [len |-> 8, dotstar |-> TRUE,
              re |-> << AnyChars,
                        Lit({<<"shi", "chang">>}),
                        AnyChars,
                        Lit({<<"zi", "xun2">>}) >>] >>,
      needs_real_time_data |-> TRUE,
      needs_knowledge_base |-> TRUE,
      priority |-> 9 ]

\* 'stock_market': keywords ['股市', '大盘', '行情', '指数', 'A股', '沪深', '涨跌', '走势']
\* patterns: len is len(pattern), dotstar is '.*' in pattern
\* priority in tenths
Config_stock_market ==
    [ keywords |->
          << <<"gu", "shi">>,
             <<"da2", "pan">>,
             <<"hang", "qing">>,
             <<"zhi2", "shu">>,
             <<"A", "gu">>,
             <<"hu", "shen3">>,
             <<"zhang2", "die">>,
             <<"zou", "shi2">> >>,
      patterns |->
          << \* .*今天.*股市
             [len |-> 8, dotstar |-> TRUE,
              re |-> << AnyChars,
                        Lit({<<"jin", "tian">>}),
                        AnyChars,
                        Lit({<<"gu", "shi">>}) >>],
             \* .*大盘.*走势
             [len |-> 8, dotstar |-> TRUE,
              re |-> << AnyChars,
                        Lit({<<"da2", "pan">>}),
                        AnyChars,
                        Lit({<<"zou", "shi2">>}) >>],
             \* .*指数.*表现
             [len |-> 8, dotstar |-> TRUE,
              re |-> << AnyChars,
                        Lit({<<"zhi2", "shu">>}),
                        AnyChars,
                        Lit({<<"biao3", "xian2">>}) >>],
             \* .*A股.*如何
             [len |-> 8, dotstar |-> TRUE,
              re |-> << AnyChars,
                        Lit({<<"A", "gu">>}),
                        AnyChars,
                        Lit({<<"ru", "he">>}) >>],
             \* .*市场.*行情
             [len |-> 8, dotstar |-> TRUE,
              re |-> << AnyChars,
                        Lit({<<"shi", "chang">>}),
                        AnyChars,
                        Lit({<<"hang", "qing">>}) >>],
             \* .*涨.*还是.*跌
             [len |-> 10, dotstar |-> TRUE,
              re |-> << AnyChars,
                        Lit({<<"zhang2">>}),
                        AnyChars,
                        Lit({<<"hai", "shi5">>}),
                        AnyChars,
                        Lit({<<"die">>}) >>] >>,
      needs_real_time_data |-> TRUE,
      target_indices |-> << <<"shang", "zheng3", "zhi2", "shu">>, <<"shen3", "zheng3", "cheng", "zhi2">>, <<"chuang", "ye", "ban", "zhi2">> >>,
      priority |-> 8 ]

\* 'specific_stock': keywords ['茅台', '腾讯', '苹果', '股票', '股价', '个股', '代码']
\* patterns: len is len(pattern), dotstar is '.*' in pattern
\* priority in tenths
Config_specific_stock ==
    [ keywords |->
          << <<"mao", "tai">>,
             <<"teng", "xun2">>,
             <<"ping", "guo2">>,
             <<"gu", "piao">>,
             <<"gu", "jia">>,
             <<"ge", "gu">>,
             <<"dai", "ma2">> >>,
      patterns |->
          << \* .*(\w+)(股票|股价|行情)
             [len |-> 17, dotstar |-> TRUE,
              re |-> << AnyChars,
                        WordChars,
                        Lit({<<"gu", "piao">>, <<"gu", "jia">>, <<"hang", "qing">>}) >>],
             \* .*(\w+).*(多少|价格)
             [len |-> 16, dotstar |-> TRUE,
              re |-> << AnyChars,
                        WordChars,
                        AnyChars,
                        Lit({<<"duo", "shao">>, <<"jia", "ge2">>}) >>],
             \* .*代码.*(\d+)
             [len |-> 11, dotstar |-> TRUE,
              re |-> << AnyChars,
                        Lit({<<"dai", "ma2">>}),
                        AnyChars,
                        Digits >>],
             \* .*(\w+).*(涨|跌)
             [len |-> 14, dotstar |-> TRUE,
              re |-> << AnyChars,
                        WordChars,
                        AnyChars,
                        Lit({<<"zhang2">>, <<"die">>}) >>] >>,
      needs_real_time_data |-> TRUE,
      entity_extraction |-> TRUE,
      priority |-> 7 ]

\* 'stock_historical_data': keywords ['历史', '日K', 'K线', '走势', '历史数据', '历史行情', '过往表现', '图表', '走势图']
\* patterns: len is len(pattern), dotstar is '.*' in pattern
\* priority in tenths
Config_stock_historical_data ==
    [ keywords |->
          << <<"li3", "shi3">>,
             <<"ri", "K">>,
             <<"K", "xian3">>,
             <<"zou", "shi2">>,
             <<"li3", "shi3", "shu", "ju">>,
             <<"li3", "shi3", "hang", "qing">>,
             <<"guo3", "wang", "biao3", "xian2">>,
             <<"tu", "biao3">>,
             <<"zou", "shi2", "tu">> >>,
      patterns |->
          << \* .*(\w+).*历史.*(K线|数据|走势|行情)
             [len |-> 26, dotstar |-> TRUE,
              re |-> << AnyChars,
                        WordChars,
                        AnyChars,
                        Lit({<<"li3", "shi3">>}),
                        AnyChars,
                        Lit({<<"K", "xian3">>, <<"shu", "ju">>, <<"zou", "shi2">>, <<"hang", "qing">>}) >>],
             \* .*(\w+).*日K.*(线|数据|图表)
             [len |-> 22, dotstar |-> TRUE,
              re |-> << AnyChars,
                        WordChars,
                        AnyChars,
                        Lit({<<"ri", "K">>}),
                        AnyChars,
                        Lit({<<"xian3">>, <<"shu", "ju">>, <<"tu", "biao3">>}) >>],
             \* .*(\w+).*过往.*(表现|走势)
             [len |-> 20, dotstar |-> TRUE,
              re |-> << AnyChars,
                        WordChars,
                        AnyChars,
                        Lit({<<"guo3", "wang">>}),
                        AnyChars,
                        Lit({<<"biao3", "xian2">>, <<"zou", "shi2">>}) >>],
             \* .*(\w+).*(历史|过去).*价格
             [len |-> 20, dotstar |-> TRUE,
              re |-> << AnyChars,
                        WordChars,
                        AnyChars,
                        Lit({<<"li3", "shi3">>, <<"guo3", "qu">>}),
                        AnyChars,
                        Lit({<<"jia", "ge2">>}) >>],
             \* .*(\w+).*走势图
             [len |-> 12, dotstar |-> TRUE,
              re |-> << AnyChars,
                        WordChars,
                        AnyChars,
                        Lit({<<"zou", "shi2", "tu">>}) >>],
             \* .*(\w+).*图表
             [len |-> 11, dotstar |-> TRUE,
              re |-> << AnyChars,
                        WordChars,
                        AnyChars,
                        Lit({<<"tu", "biao3">>}) >>] >>,
      needs_historical_data |-> TRUE,
      needs_real_time_data |-> TRUE,
      entity_extraction |-> TRUE,
      priority |-> 8 ]

\* 'economic_analysis': keywords ['GDP', 'CPI', '经济', '通胀', '利率', '货币政策', '宏观经济']
\* patterns: len is len(pattern), dotstar is '.*' in pattern
\* priority in tenths
Config_economic_analysis ==
    [ keywords |->
          << <<"G", "D", "P">>,
             <<"C", "P", "I">>,
             <<"jing", "ji3">>,
             <<"tong", "zhang3">>,
             <<"li2", "lv">>,
             <<"huo", "bi2", "zheng2", "ce">>,
             <<"hong", "guan", "jing", "ji3">> >>,
      patterns |->
          << \* .*经济.*数据
             [len |-> 8, dotstar |-> TRUE,
              re |-> << AnyChars,
                        Lit({<<"jing", "ji3">>}),
                        AnyChars,
                        Lit({<<"shu", "ju">>}) >>],
             \* .*GDP.*增长
             [len |-> 9, dotstar |-> TRUE,
              re |-> << AnyChars,
                        Lit({<<"G", "D", "P">>}),
                        AnyChars,
                        Lit({<<"zeng", "zhang4">>}) >>],
             \* .*CPI.*如何
             [len |-> 9, dotstar |-> TRUE,
              re |-> << AnyChars,
                        Lit({<<"C", "P", "I">>}),
                        AnyChars,
                        Lit({<<"ru", "he">>}) >>],
             \* .*通胀.*情况
             [len |-> 8, dotstar |-> TRUE,
              re |-> << AnyChars,
                        Lit({<<"tong", "zhang3">>}),
                        AnyChars,
                        Lit({<<"qing", "kuang">>}) >>],
             \* .*利率.*政策
             [len |-> 8, dotstar |-> TRUE,
              re |-> << AnyChars,
                        Lit({<<"li2", "lv">>}),
                        AnyChars,
                        Lit({<<"zheng2", "ce">>}) >>] >>,
      needs_real_time_data |-> TRUE,
      economic_indicators |-> << <<"G", "D", "P">>, <<"C", "P", "I">>, <<"P", "P", "I">> >>,
      priority |-> 6 ]

\* 'investment_advice': keywords ['建议', '推荐', '买什么', '投资', '配置', '操作', '策略']
\* patterns: len is len(pattern), dotstar is '.*' in pattern
\* priority in tenths
Config_investment_advice ==
    [ keywords |->
          << <<"jian2", "yi">>,
             <<"tui", "jian3">>,
             <<"mai", "shen2", "me">>,
             <<"tou3", "zi">>,
             <<"pei", "zhi3">>,
             <<"cao", "zuo">>,
             <<"ce", "lve">> >>,
      patterns |->
          << \* .*投资.*建议
             [len |-> 8, dotstar |-> TRUE,
              re |-> << AnyChars,
                        Lit({<<"tou3", "zi">>}),
                        AnyChars,
                        Lit({<<"jian2", "yi">>}) >>],
             \* .*买.*什么.*股票
             [len |-> 11, dotstar |-> TRUE,
              re |-> << AnyChars,
                        Lit({<<"mai">>}),
                        AnyChars,
                        Lit({<<"shen2", "me">>}),
                        AnyChars,
                        Lit({<<"gu", "piao">>}) >>],
             \* .*如何.*配置
             [len |-> 8, dotstar |-> TRUE,
              re |-> << AnyChars,
                        Lit({<<"ru", "he">>}),
                        AnyChars,
                        Lit({<<"pei", "zhi3">>}) >>],
             \* .*操作.*策略
             [len |-> 8, dotstar |-> TRUE,
              re |-> << AnyChars,
                        Lit({<<"cao", "zuo">>}),
                        AnyChars,
                        Lit({<<"ce", "lve">>}) >>],
             \* .*推荐.*个股
             [len |-> 8, dotstar |-> TRUE,
              re |-> << AnyChars,
                        Lit({<<"tui", "jian3">>}),
                        AnyChars,
                        Lit({<<"ge", "gu">>}) >>] >>,
      needs_historical_context |-> TRUE,
      needs_knowledge_base |-> TRUE,
      priority |-> 5 ]

\* 'time_query': keywords ['今天', '现在', '日期', '时间', '周几', '星期']
\* patterns: len is len(pattern), dotstar is '.*' in pattern
\* priority in tenths
Config_time_query ==
    [ keywords |->
          << <<"jin", "tian">>,
             <<"xian2", "zai">>,
             <<"ri", "qi2">>,
             <<"shi4", "jian4">>,
             <<"zhou2", "ji2">>,
             <<"xing", "qi2">> >>,
      patterns |->
          << \* .*今天.*几号
             [len |-> 8, dotstar |-> TRUE,
              re |-> << AnyChars,
                        Lit({<<"jin", "tian">>}),
                        AnyChars,
                        Lit({<<"ji2", "hao">>}) >>],
             \* .*现在.*几点
             [len |-> 8, dotstar |-> TRUE,
              re |-> << AnyChars,
                        Lit({<<"xian2", "zai">>}),
                        AnyChars,
                        Lit({<<"ji2", "dian">>}) >>],
             \* .*星期.*几
             [len |-> 7, dotstar |-> TRUE,
              re |-> << AnyChars,
                        Lit({<<"xing", "qi2">>}),
                        AnyChars,
                        Lit({<<"ji2">>}) >>],
             \* .*周.*几
             [len |-> 6, dotstar |-> TRUE,
              re |-> << AnyChars,
                        Lit({<<"zhou2">>}),
                        AnyChars,
                        Lit({<<"ji2">>}) >>],
             \* .*什么.*时间
             [len |-> 8, dotstar |-> TRUE,
              re |-> << AnyChars,
                        Lit({<<"shen2", "me">>}),
                        AnyChars,
                        Lit({<<"shi4", "jian4">>}) >>] >>,
      is_simple_time_query |-> TRUE,
      priority |-> 3 ]

\* self.intent_patterns
intent_patterns ==
    [ market_news |-> Config_market_news,
      stock_market |-> Config_stock_market,
      specific_stock |-> Config_specific_stock,
      stock_historical_data |-> Config_stock_historical_data,
      economic_analysis |-> Config_economic_analysis,
      investment_advice |-> Config_investment_advice,
      time_query |-> Config_time_query ]

\* self.entity_dict['stocks'] as a sequence of <<name, code>> pairs, in insertion order
entity_dict_stocks ==
    << << <<"mao", "tai">>, <<"6", "0", "0", "5", "1", "9", ".", "S", "S">> >>,   \* 茅台: 600519.SS
       << <<"gui", "zhou", "mao", "tai">>, <<"6", "0", "0", "5", "1", "9", ".", "S", "S">> >>,   \* 贵州茅台: 600519.SS
       << <<"teng", "xun2">>, <<"0", "0", "7", "0", "0", ".", "H", "K">> >>,   \* 腾讯: 00700.HK
       << <<"teng", "xun2", "kong", "gu">>, <<"0", "0", "7", "0", "0", ".", "H", "K">> >>,   \* 腾讯控股: 00700.HK
       << <<"ping", "guo2">>, <<"A", "A", "P", "L", ".", "U", "S">> >>,   \* 苹果: AAPL.US
       << <<"ping", "guo2", "gong", "si2">>, <<"A", "A", "P", "L", ".", "U", "S">> >>,   \* 苹果公司: AAPL.US
       << <<"a1", "li4", "ba", "ba">>, <<"B", "A", "B", "A", ".", "U", "S">> >>,   \* 阿里巴巴: BABA.US
       << <<"a1", "li4">>, <<"B", "A", "B", "A", ".", "U", "S">> >>,   \* 阿里: BABA.US
       << <<"wei", "ruan">>, <<"M", "S", "F", "T", ".", "U", "S">> >>,   \* 微软: MSFT.US
       << <<"gu2", "ge3">>, <<"G", "O", "O", "G", "L", ".", "U", "S">> >>,   \* 谷歌: GOOGL.US
       << <<"ya", "ma3", "xun3">>, <<"A", "M", "Z", "N", ".", "U", "S">> >>,   \* 亚马逊: AMZN.US
       << <<"te", "si3", "la">>, <<"T", "S", "L", "A", ".", "U", "S">> >>,   \* 特斯拉: TSLA.US
       << <<"ning", "de", "shi4", "dai">>, <<"3", "0", "0", "7", "5", "0", ".", "S", "Z">> >>,   \* 宁德时代: 300750.SZ
       << <<"bi3", "ya", "di">>, <<"0", "0", "2", "5", "9", "4", ".", "S", "Z">> >> >>   \* 比亚迪: 002594.SZ

\* self.entity_dict['indices'] as a sequence of <<name, code>> pairs, in insertion order
entity_dict_indices ==
    << << <<"shang", "zheng3", "zhi2", "shu">>, <<"0", "0", "0", "0", "0", "1", ".", "S", "S">> >>,   \* 上证指数: 000001.SS
       << <<"shang", "zheng3">>, <<"0", "0", "0", "0", "0", "1", ".", "S", "S">> >>,   \* 上证: 000001.SS
       << <<"shen3", "zheng3", "cheng", "zhi2">>, <<"3", "9", "9", "0", "0", "1", ".", "S", "Z">> >>,   \* 深证成指: 399001.SZ
       << <<"shen3", "zheng3">>, <<"3", "9", "9", "0", "0", "1", ".", "S", "Z">> >>,   \* 深证: 399001.SZ
       << <<"chuang", "ye", "ban", "zhi2">>, <<"3", "9", "9", "0", "0", "6", ".", "S", "Z">> >>,   \* 创业板指: 399006.SZ
       << <<"chuang", "ye", "ban">>, <<"3", "9", "9", "0", "0", "6", ".", "S", "Z">> >>,   \* 创业板: 399006.SZ
       << <<"hu", "shen3", "3", "0", "0">>, <<"0", "0", "0", "3", "0", "0", ".", "S", "S">> >>,   \* 沪深300: 000300.SS
       << <<"hu", "shen3">>, <<"0", "0", "0", "3", "0", "0", ".", "S", "S">> >>,   \* 沪深: 000300.SS
       << <<"ke3", "chuang", "5", "0">>, <<"0", "0", "0", "6", "8", "8", ".", "S", "S">> >>,   \* 科创50: 000688.SS
       << <<"ke3", "chuang">>, <<"0", "0", "0", "6", "8", "8", ".", "S", "S">> >>,   \* 科创: 000688.SS
       << <<"dao", "zhi2">>, <<"D", "J", "I">> >>,   \* 道指: DJI
       << <<"dao", "qiong", "si3">>, <<"D", "J", "I">> >>,   \* 道琼斯: DJI
       << <<"na2", "zhi2">>, <<"I", "X", "I", "C">> >>,   \* 纳指: IXIC
       << <<"na2", "si3", "da3", "ke2">>, <<"I", "X", "I", "C">> >>,   \* 纳斯达克: IXIC
       << <<"biao2", "pu">>, <<"S", "P", "X">> >>,   \* 标普: SPX
       << <<"biao2", "pu", "5", "0", "0">>, <<"S", "P", "X">> >> >>   \* 标普500: SPX
----------------------------------------------------------------------------
(* The texts of the model.  A query is a concatenation of at most MaxTokens *)
(* tokens of a lexicon.                                                     *)

Ta == <<"ta">>                                      \* 它
ZheGe == <<"zhe", "ge">>                            \* 这个
Maotai == <<"mao", "tai">>                          \* 茅台
GuizhouMaotai == <<"gui", "zhou", "mao", "tai">>    \* 贵州茅台
GuJia == <<"gu", "jia">>                            \* 股价
MaotaiCode == <<"6", "0", "0", "5", "1", "9", ".", "S", "S">>

\* the concatenations of at most n tokens of lexicon
QueriesOver(lexicon, n) ==
    {Concat(ts) : ts \in UNION {[1..k -> lexicon] : k \in 0..n}}

\* the queries of the two families of inputs
ClassifierQueries == QueriesOver({Ta, Maotai, GuizhouMaotai, GuJia}, MaxTokens)

CoreferenceQueries == QueriesOver({Ta, ZheGe, GuJia}, MaxTokens)

\* the texts of the history turns
HistoryTexts == {GuizhouMaotai \o GuJia, Maotai, GuJia}

\* the queries of process_query: one that names a stock, one that names an
\* index (上证), one with a pronoun, one with neither
StoreQueries ==
    {GuizhouMaotai \o GuJia, <<"shang", "zheng3">> \o GuJia, Ta \o GuJia, GuJia}

\* queries about the categories: an index with the words of a stock_market
\* pattern (上证大盘走势), keywords written with upper-case letters (GDP,
\* A股行情), and bare codes of six digits
CategoryQueries ==
    { <<"shang", "zheng3", "da2", "pan", "zou", "shi2">>,
      <<"G", "D", "P">>,
      <<"A", "gu", "hang", "qing">>,
      <<"6", "0", "0", "5", "1", "9">>,
      <<"0", "0", "0", "0", "0", "1">> }

Texts ==
    ClassifierQueries \cup CoreferenceQueries \cup HistoryTexts \cup StoreQueries
        \cup CategoryQueries

----------------------------------------------------------------------------
(* _keyword_scoring, _pattern_matching, _combine_scores *)

\* how many of the keywords occur in s
MatchedKeywords(keywords, s) ==
    Cardinality({i \in 1..Len(keywords) : Contains(s, keywords[i])})

\* score / total_keywords * priority, for the categories with score > 0
KeywordScoring(patterns, query_lower) ==
    [n \in {k \in DOMAIN patterns :
               MatchedKeywords(patterns[k].keywords, query_lower) > 0} |->
        (MatchedKeywords(patterns[n].keywords, query_lower)
            * patterns[n].priority * Scale)
        \div (Len(patterns[n].keywords) * 10)]

\* the keywords are looked up in query.lower() as they are written
_keyword_scoring(q) == KeywordScoring(intent_patterns, Lower(q))

\* pattern_score in tenths: 0.7, +0.2 for a pattern longer than 20
\* characters, else +0.1 for a pattern that holds '.*'
PatternScore(p) ==
    7 + (IF p.len > 20 THEN 2 ELSE IF p.dotstar THEN 1 ELSE 0)

\* the greatest number of S, 0 when S is empty
MaxOf(S) == IF S = {} THEN 0 ELSE CHOOSE n \in S : \A k \in S : k <= n

\* max_pattern_score in tenths, 0 when no pattern of the category matches
MaxPatternScore(patterns, q) ==
    MaxOf({PatternScore(patterns[i]) :
              i \in {j \in 1..Len(patterns) : ReSearch(patterns[j].re, q)}})

\* max_pattern_score * priority, for the categories with max_pattern_score > 0
PatternMatching(patterns, q) ==
    [n \in {k \in DOMAIN patterns : MaxPatternScore(patterns[k].patterns, q) > 0} |->
        (MaxPatternScore(patterns[n].patterns, q) * patterns[n].priority * Scale)
        \div 100]

_pattern_matching(q) == PatternMatching(intent_patterns, q)

\* the categories that get the entity boost
EntityBoosted == {"specific_stock", "stock_market", "stock_historical_data"}

_combine_scores(keyword_scores, pattern_scores, entities) ==
    [n \in DOMAIN keyword_scores \cup DOMAIN pattern_scores |->
        LET keyword_score == Get(keyword_scores, n, 0)
            pattern_score == Get(pattern_scores, n, 0)
            combined_score == (keyword_score * 6 + pattern_score * 4) \div 10
            entity_boost ==
                IF entities # <<>> /\ n \in EntityBoosted
                THEN Min(Len(entities) * (Scale \div 10), (3 * Scale) \div 10)
                ELSE 0
        IN  Min(combined_score + entity_boost, Scale)]

\* the confidence threshold 0.3 of analyze
Threshold == (3 * Scale) \div 10

----------------------------------------------------------------------------
(* Word segmentation (jieba) and _extract_entities, _extract_keywords *)

\* the words _init_jieba adds to the segmenter: the names of entity_dict and
\* five custom words
JiebaWords ==
    {entity_dict_stocks[i][1] : i \in 1..Len(entity_dict_stocks)}
    \cup {entity_dict_indices[i][1] : i \in 1..Len(entity_dict_indices)}
    \cup { <<"cai", "jing", "xin", "wen">>, <<"gu", "shi", "hang", "qing">>,
           <<"tou3", "zi", "jian2", "yi">>, <<"jing", "ji3", "shu", "ju">>,
           <<"huo", "bi2", "zheng2", "ce">> }

\* length of the word the segmenter cuts at position i of s: the longest
\* added word that starts there, else a run of digits, else one character
WordLenAt(s, i) ==
    LET lens == {Len(w) : w \in {x \in JiebaWords :
                     /\ i + Len(x) - 1 <= Len(s)
                     /\ SubSeq(s, i, i + Len(x) - 1) = x}}
    IN  IF lens # {} THEN MaxOf(lens)
        ELSE IF s[i] \in DigitChars
             THEN CHOOSE n \in 1..(Len(s) - i + 1) :
                     /\ \A k \in i..(i + n - 1) : s[k] \in DigitChars
                     /\ (i + n > Len(s) \/ s[i + n] \notin DigitChars)
             ELSE 1

\* pseg.cut(s): the words of s with their part-of-speech flag ('m' is a
\* numeral)
RECURSIVE CutFrom(_, _)
CutFrom(s, i) ==
    IF i > Len(s) THEN <<>>
    ELSE LET n == WordLenAt(s, i)
         IN  << [word |-> SubSeq(s, i, i + n - 1),
                 flag |-> IF IsDigitStr(SubSeq(s, i, i + n - 1)) THEN "m" ELSE "x"] >>
             \o CutFrom(s, i + n)

Cut(s) == CutFrom(s, 1)

DictHas(d, name) == \E i \in 1..Len(d) : d[i][1] = name

\* d[name]
DictGet(d, name) == d[CHOOSE i \in 1..Len(d) : d[i][1] = name][2]

\* the entity _extract_entities appends for one word, if any (confidence in
\* hundredths)
EntityOfWord(t) ==
    IF DictHas(entity_dict_stocks, t.word)
    THEN << [type |-> "stock", value |-> DictGet(entity_dict_stocks, t.word),
             name |-> t.word, source |-> "dictionary", confidence |-> 90] >>
    ELSE IF DictHas(entity_dict_indices, t.word)
    THEN << [type |-> "index", value |-> DictGet(entity_dict_indices, t.word),
             name |-> t.word, source |-> "dictionary", confidence |-> 90] >>
    ELSE IF t.flag = "m" /\ Len(t.word) >= 4 /\ IsDigitStr(t.word) /\ Len(t.word) = 6
    THEN << [type |-> "stock_code",
             value |-> t.word \o (IF StartsWithAny(t.word, {"0", "3"})
                                  THEN <<".", "S", "S">> ELSE <<".", "S", "Z">>),
             name |-> <<"gu", "piao">> \o t.word,
             source |-> "digits", confidence |-> 60] >>
    ELSE <<>>

\* the entities of the words of a cut
EntitiesOfWords(words) ==
    Concat([i \in 1..Len(words) |-> EntityOfWord(words[i])])

\* an extraction that finds nothing
NoEntities(q) == <<>>

_extract_entities(q) == EntitiesOfWords(Cut(q))

\* the distinct items of ws in the order of their first occurrence
FirstOccurrences(ws) ==
    LET F[i \in 0..Len(ws)] ==
            IF i = 0 THEN <<>>
            ELSE IF \E j \in 1..(i - 1) : ws[j] = ws[i] THEN F[i - 1]
                 ELSE Append(F[i - 1], ws[i])
    IN  F[Len(ws)]

\* the (at most 5) most frequent words of more than one character of a cut:
\* sorted(word_freq.items(), key=freq, reverse=True)[:5]
MostFrequent(cut) ==
    LET words == SelectSeq([i \in 1..Len(cut) |-> cut[i].word], LAMBDA w : Len(w) > 1)
        firsts == FirstOccurrences(words)
        freq == [i \in 1..Len(firsts) |->
                    Cardinality({j \in 1..Len(words) : words[j] = firsts[i]})]
        sorted_words == StableSortDesc(firsts, freq)
    IN  SubSeq(sorted_words, 1, Min(5, Len(sorted_words)))

_extract_keywords(q) == MostFrequent(Cut(q))

\* the results of the four methods on the texts of the model, computed once
KeywordScoresOf == [t \in Texts |-> _keyword_scoring(t)]

PatternScoresOf == [t \in Texts |-> _pattern_matching(t)]

EntitiesOf == [t \in Texts |-> _extract_entities(t)]

KeywordsOf == [t \in Texts |-> _extract_keywords(t)]

----------------------------------------------------------------------------
(* _resolve_pronouns_with_coreferences *)

\* the pronoun list of analyze and of _resolve_pronouns_with_coreferences
PRONOUNS ==
    << <<"ta">>, <<"zhe", "ge">>, <<"na", "ge">>, <<"qi">>, <<"gai">> >>

\* a detection that finds every pronoun in every query
EveryPronoun(q) == PRONOUNS

DetectedPronouns(q) == SelectSeq(PRONOUNS, LAMBDA p : Contains(q, p))

\* filtered_coreferences: for each detected pronoun in turn, its bindings
\* in the order of the list
FilterCoreferences(pronouns, corefs) ==
    Concat([i \in 1..Len(pronouns) |->
               SelectSeq(corefs, LAMBDA c : Get(c, "pronoun", None) = pronouns[i])])

\* the bindings left in the order of the list
SortByTimestampOmitted(cs) == cs

\* filtered_coreferences.sort(key=timestamp, reverse=True); timestamps are
\* ISO strings, ordered as the numbers of the model, '' (0) when missing
SortByTimestampDesc(cs) ==
    StableSortDesc(cs, [i \in 1..Len(cs) |-> Get(cs[i], "timestamp", 0)])

\* the entity built from one stored binding (confidence in hundredths)
CorefEntity(q, coref) ==
    [ pronoun |-> Get(coref, "pronoun", None),
      value |-> Get(coref, "value", None),
      type |-> Get(coref, "type", "stock"),
      start_pos |-> Find(q, Get(coref, "pronoun", None)),
      end_pos |-> Find(q, Get(coref, "pronoun", None)) + Len(Get(coref, "pronoun", None)),
      confidence |-> 95,
      code |-> Get(coref, "value", None),
      name |-> Get(coref, "value", None) ]

\* [raised, value]: raised when a binding is no dict (coref.get fails); the
\* selection loop over the sorted bindings stops when
\* len(resolved_entities) >= len(pronouns)
_resolve_pronouns_with_coreferences(q, corefs) ==
    LET pronouns == DetectedPronouns(q)
    IN  IF pronouns = <<>> THEN [raised |-> FALSE, value |-> <<>>]
        ELSE IF \E i \in 1..Len(corefs) : ~IsDict(corefs[i])
             THEN [raised |-> TRUE, value |-> <<>>]
             ELSE LET sorted == SortByTimestampDesc(FilterCoreferences(pronouns, corefs))
                  IN  [raised |-> FALSE,
                       value |-> [i \in 1..Min(Len(sorted), Len(pronouns)) |->
                                     CorefEntity(q, sorted[i])]]

----------------------------------------------------------------------------
(* _analyze_with_langchain: the external classifier                         *)
(* llm = [configured, intent, entity]: configured is whether                *)
(* _init_langchain_components succeeded; intent and entity are what the two *)
(* chain invocations of this call do: [raises |-> TRUE] (an error, a        *)
(* timeout, unparsable output) or [raises |-> FALSE, value |-> parsed JSON] *)

\* formatting the history fails on an item that is neither a dict nor a pair
HistoryItemOk(item) ==
    IsDict(item) \/ (item.pytype = "tuple" /\ Len(item.items) = 2)

\* the flags copied from the category's configuration
FlagKeys ==
    {"needs_real_time_data", "needs_knowledge_base",
     "needs_historical_context", "is_simple_time_query"}

\* d with the flags and the targets of the configuration of primary_intent
\* ({} for an unknown intent) merged into it
MergeIntentConfig(d, primary_intent, intent_config) ==
    LET flags == [k \in FlagKeys \cap DOMAIN intent_config |-> intent_config[k]]
    IN  IF primary_intent = "stock_market" /\ "target_indices" \in DOMAIN intent_config
        THEN Put(Update(d, flags), "target_indices", intent_config.target_indices)
        ELSE IF primary_intent = "economic_analysis"
                /\ "economic_indicators" \in DOMAIN intent_config
        THEN Put(Update(d, flags), "economic_indicators",
                 intent_config.economic_indicators)
        ELSE Update(d, flags)

\* the entity loop fails on an entity that is no dict and on a stock_code
\* whose value has no len()
LangchainEntitiesOk(entities) ==
    \A i \in 1..Len(entities) :
        /\ IsDict(entities[i])
        /\ ~(Get(entities[i], "type", "None") = "stock_code"
             /\ Get(entities[i], "value", None) = None)

\* the target symbol of one classifier entity, if any
LangchainSymbol(entity_type, value) ==
    IF entity_type = "stock_name" /\ DictHas(entity_dict_stocks, value)
    THEN <<DictGet(entity_dict_stocks, value)>>
    ELSE IF entity_type = "stock_code" /\ Len(value) = 6 /\ IsDigitStr(value)
    THEN << value \o (IF SubSeq(value, 1, 3) \in
                            { <<"0", "0", "0">>, <<"0", "0", "2">>, <<"3", "0", "0">> }
                      THEN <<".", "S", "Z">> ELSE <<".", "S", "S">>) >>
    ELSE <<>>

\* the target index of one classifier entity, if any
LangchainIndex(entity_type, value) ==
    IF entity_type = "index_name" /\ DictHas(entity_dict_indices, value)
    THEN <<DictGet(entity_dict_indices, value)>>
    ELSE <<>>

\* the dict _analyze_with_langchain returns when nothing fails
LangchainResult(q, primary_intent, confidence, entities) ==
    MergeIntentConfig(
        [ primary_intent |-> primary_intent,
          confidence |-> confidence,
          entities |-> entities,
          target_symbols |->
              Concat([i \in 1..Len(entities) |->
                         LangchainSymbol(Get(entities[i], "type", "None"),
                                         Get(entities[i], "value", None))]),
          target_indices |->
              Concat([i \in 1..Len(entities) |->
                         LangchainIndex(Get(entities[i], "type", "None"),
                                        Get(entities[i], "value", None))]),
          keywords |-> KeywordsOf[q] ],
        primary_intent,
        Get(intent_patterns, primary_intent, <<>>))

\* [ok, result, calls]: ok is FALSE where the method returns None (every
\* exception is caught inside it); calls counts the chain invocations made
_analyze_with_langchain(q, h, l) ==
    IF \E i \in 1..Len(h) : ~HistoryItemOk(h[i])
    THEN [ok |-> FALSE, result |-> <<>>, calls |-> 0]
    ELSE IF ~l.configured
    THEN [ok |-> FALSE, result |-> <<>>, calls |-> 0]
    ELSE IF l.intent.raises \/ ~IsDict(l.intent.value)
    THEN [ok |-> FALSE, result |-> <<>>, calls |-> 1]
    ELSE IF l.entity.raises \/ ~IsDict(l.entity.value)
              \/ ~LangchainEntitiesOk(Get(l.entity.value, "entities", <<>>))
    THEN [ok |-> FALSE, result |-> <<>>, calls |-> 2]
    ELSE [ok |-> TRUE,
          result |-> LangchainResult(q,
                                     Get(l.intent.value, "intent", "general"),
                                     Get(l.intent.value, "confidence", Num(0)),
                                     Get(l.entity.value, "entities", <<>>)),
          calls |-> 2]

----------------------------------------------------------------------------
(* analyze, statement by statement.  m holds the dict analysis (m.a), the   *)
(* local variables and m.exc, TRUE once a statement of the try block has    *)
(* raised: the statements after it are skipped.                             *)

InitialAnalysis ==
    [ primary_intent |-> "general",
      confidence |-> Num(0),
      entities |-> <<>>,
      needs_real_time_data |-> FALSE,
      needs_knowledge_base |-> TRUE,
      needs_historical_context |-> FALSE,
      is_simple_time_query |-> FALSE,
      target_symbols |-> <<>>,
      target_indices |-> <<>>,
      keywords |-> <<>>,
      intent_details |-> <<>>,
      langchain_used |-> FALSE,
      resolved_pronouns |-> <<>> ]

InitialFrame ==
    [ a |-> InitialAnalysis,
      exc |-> FALSE,
      has_pronoun |-> FALSE,
      resolved_entities |-> <<>>,
      langchain_used |-> FALSE,
      langchain_result |-> <<>>,
      llm_calls |-> 0,
      entities |-> <<>>,
      scored |-> FALSE,
      keyword_scores |-> <<>>,
      pattern_scores |-> <<>>,
      combined |-> FALSE,
      combined_scores |-> <<>>,
      substituted |-> <<>>,
      trace |-> <<>> ]

Raise(m) == [m EXCEPT !.exc = TRUE]

Log(m, event) == [m EXCEPT !.trace = Append(@, event)]

\* steps 1 and 2: pronoun detection and resolution from the stored bindings
ResolveStep(m, q, corefs) ==
    LET has_pronoun == \E i \in 1..Len(PRONOUNS) : Contains(q, PRONOUNS[i])
        r == _resolve_pronouns_with_coreferences(q, corefs)
    IN  IF ~has_pronoun THEN m
        ELSE IF r.raised THEN Raise(Log([m EXCEPT !.has_pronoun = TRUE], "resolve"))
        ELSE Log([m EXCEPT !.has_pronoun = TRUE,
                           !.resolved_entities = r.value,
                           !.a = IF r.value # <<>>
                                 THEN Put(Put(@, "resolved_pronouns", r.value),
                                          "entities", r.value)
                                 ELSE @],
                 "resolve")

\* the result r = [ok, result, calls] of the classifier taken into the call;
\* the log line formats the confidence with :.2f
LangchainMerged(m, r) ==
    IF ~r.ok THEN [m EXCEPT !.llm_calls = r.calls]
    ELSE [m EXCEPT !.llm_calls = r.calls,
                   !.a = Put(Update(@, r.result), "langchain_used", TRUE),
                   !.langchain_used = TRUE,
                   !.langchain_result = r.result,
                   !.exc = ~r.result.confidence.isnum]

\* step 3: the external classifier
LangchainStep(m, q, h, corefs, l) ==
    IF m.exc THEN m
    ELSE IF ~(m.resolved_entities = <<>> /\ (l.configured \/ m.has_pronoun)) THEN m
    ELSE IF \E i \in 1..Len(corefs) : ~IsDict(corefs[i])
    THEN Raise(m)       \* coref.get while formatting the bindings
    ELSE LangchainMerged(Log(m, "langchain"), _analyze_with_langchain(q, h, l))

\* (type, value) of an entity
EntityKey(e) == <<Get(e, "type", "None"), Get(e, "value", None)>>

\* the entities of es without the later ones of equal (type, value)
Deduplicate(es) ==
    LET F[i \in 0..Len(es)] ==
            IF i = 0 THEN <<>>
            ELSE IF \E j \in 1..(i - 1) : EntityKey(es[j]) = EntityKey(es[i])
                 THEN F[i - 1]
                 ELSE Append(F[i - 1], es[i])
    IN  F[Len(es)]

\* the entities of the local pipeline: those extracted from the query,
\* merged with the resolved ones and deduplicated when there are resolved
\* ones, and then written to the result
LocalEntities(m, extracted) ==
    IF m.resolved_entities # <<>>
    THEN [m EXCEPT !.entities = Deduplicate(extracted \o m.resolved_entities),
                   !.a = Put(@, "entities",
                             Deduplicate(extracted \o m.resolved_entities))]
    ELSE [m EXCEPT !.entities = extracted]

\* step 4: the local pipeline, when the classifier gave no result
LocalStep(m, q) ==
    IF m.exc \/ m.langchain_used THEN m
    ELSE LocalEntities(Log([m EXCEPT !.scored = TRUE,
                                     !.keyword_scores = KeywordScoresOf[q],
                                     !.pattern_scores = PatternScoresOf[q]],
                           "local"),
                       EntitiesOf[q])

\* the texts of a history item: query and response of a dict, else the pair
HistoryItemTexts(item) ==
    IF IsDict(item) THEN <<Get(item, "query", <<>>), Get(item, "response", <<>>)>>
    ELSE item.items

\* a scan that finds nothing
NoScan(h, i) == [raised |-> FALSE, value |-> <<>>]

\* the history scan from item i down to the oldest: [raised, value]; the
\* scan fails on an item whose metadata is no dict ('entities' in None) and
\* on an item that is neither a dict nor a pair
RECURSIVE ScanHistory(_, _)
ScanHistory(h, i) ==
    IF i = 0 THEN [raised |-> FALSE, value |-> <<>>]
    ELSE IF IsDict(h[i]) /\ "metadata" \in DOMAIN h[i] /\ ~IsDict(h[i].metadata)
    THEN [raised |-> TRUE, value |-> <<>>]
    ELSE IF ~HistoryItemOk(h[i])
    THEN [raised |-> TRUE, value |-> <<>>]
    ELSE IF /\ IsDict(h[i])
            /\ "metadata" \in DOMAIN h[i]
            /\ Get(h[i].metadata, "entities", <<>>) # <<>>
    THEN [raised |-> FALSE, value |-> h[i].metadata.entities]
    ELSE IF EntitiesOf[HistoryItemTexts(h[i])[1]] # <<>>
    THEN [raised |-> FALSE, value |-> EntitiesOf[HistoryItemTexts(h[i])[1]]]
    ELSE IF EntitiesOf[HistoryItemTexts(h[i])[2]] # <<>>
    THEN [raised |-> FALSE, value |-> EntitiesOf[HistoryItemTexts(h[i])[2]]]
    ELSE ScanHistory(h, i - 1)

\* the result r = [raised, value] of the history scan taken into the call
Scanned(m, r) ==
    IF r.raised THEN Raise(m) ELSE [m EXCEPT !.entities = r.value]

\* the history-scan fallback
HistoryStep(m, h) ==
    IF m.exc THEN m
    ELSE IF ~(m.has_pronoun /\ m.a.entities = <<>> /\ m.entities = <<>>) THEN m
    ELSE Scanned(Log(m, "history"), ScanHistory(h, Len(h)))

\* e['value'] for the entities with e['type'] == t fails on an entity that
\* has no type, and on one of type t that has no value
ValueLookupFails(entities, t) ==
    \E i \in 1..Len(entities) :
        \/ ~IsDict(entities[i])
        \/ "type" \notin DOMAIN entities[i]
        \/ (entities[i].type = t /\ "value" \notin DOMAIN entities[i])

ValuesOfType(entities, t) ==
    LET es == SelectSeq(entities, LAMBDA e : e.type = t)
    IN  [i \in 1..Len(es) |-> es[i].value]

\* entities, target_symbols and target_indices of the result
TargetsStep(m) ==
    IF m.exc \/ m.entities = <<>> THEN m
    ELSE IF ValueLookupFails(m.entities, "stock")
    THEN Raise([m EXCEPT !.a = Put(@, "entities", m.entities)])
    ELSE IF ValueLookupFails(m.entities, "index")
    THEN Raise([m EXCEPT !.a = Put(Put(@, "entities", m.entities),
                                   "target_symbols", ValuesOfType(m.entities, "stock"))])
    ELSE [m EXCEPT !.a = Put(Put(Put(@, "entities", m.entities),
                                 "target_symbols", ValuesOfType(m.entities, "stock")),
                             "target_indices", ValuesOfType(m.entities, "index"))]

\* the combined scores of the call (the keyword and pattern scores are
\* computed here when the local pipeline did not run)
CombineStep(m, q) ==
    IF m.exc THEN m
    ELSE Log([m EXCEPT !.keyword_scores = IF m.scored THEN @ ELSE KeywordScoresOf[q],
                       !.pattern_scores = IF m.scored THEN @ ELSE PatternScoresOf[q],
                       !.combined = TRUE,
                       !.combined_scores =
                           _combine_scores(
                               IF m.scored THEN m.keyword_scores ELSE KeywordScoresOf[q],
                               IF m.scored THEN m.pattern_scores ELSE PatternScoresOf[q],
                               m.entities)],
             "combine")

\* the categories max(combined_scores.items(), key=score) can return: the
\* items come in the iteration order of a set of str, which is not fixed, so
\* any category of maximal score
Winners(combined_scores) ==
    {n \in DOMAIN combined_scores :
        \A k \in DOMAIN combined_scores : combined_scores[k] <= combined_scores[n]}

\* a threshold of 0
AboveZero(confidence) == confidence > 0

\* confidence > 0.3
AboveThreshold(confidence) == confidence > Threshold

\* step 5: the primary intent, given the category max returned
IntentStep(m, primary_intent) ==
    IF m.exc \/ DOMAIN m.combined_scores = {} THEN m
    ELSE IF ~AboveThreshold(m.combined_scores[primary_intent]) THEN m
    ELSE [m EXCEPT !.a = MergeIntentConfig(
                             Update(@, [primary_intent |-> primary_intent,
                                        confidence |->
                                            Num(m.combined_scores[primary_intent])]),
                             primary_intent,
                             Get(intent_patterns, primary_intent, <<>>))]

\* step 6: the keywords
KeywordsStep(m, q) ==
    IF m.exc THEN m ELSE [m EXCEPT !.a = Put(@, "keywords", KeywordsOf[q])]

\* resolved_pronouns.sort(key=lambda x: len(x.get('value', '')), reverse=True)
SortForSubstitution(resolved_pronouns) ==
    StableSortDesc(resolved_pronouns,
                   [i \in 1..Len(resolved_pronouns) |->
                       Len(Get(resolved_pronouns[i], "value", <<>>))])

\* the replacement loop from item i on; acc = [text, applied]
RECURSIVE Substitute(_, _, _)
Substitute(resolved_pronouns, i, acc) ==
    IF i > Len(resolved_pronouns) THEN acc
    ELSE IF /\ Truthy(Get(resolved_pronouns[i], "pronoun", None))
            /\ Truthy(Get(resolved_pronouns[i], "value", None))
            /\ Contains(acc.text, Get(resolved_pronouns[i], "pronoun", None))
    THEN Substitute(resolved_pronouns, i + 1,
                    [text |-> Replace(acc.text,
                                      Get(resolved_pronouns[i], "pronoun", None),
                                      Get(resolved_pronouns[i], "value", None)),
                     applied |-> Append(acc.applied,
                                        Get(resolved_pronouns[i], "pronoun", None))])
    ELSE Substitute(resolved_pronouns, i + 1, acc)

\* resolved_query: the sort raises on a value that has no len()
SubstituteStep(m, q) ==
    IF m.exc THEN m
    ELSE IF Get(m.a, "resolved_pronouns", <<>>) = <<>>
    THEN [m EXCEPT !.a = Put(@, "resolved_query", q)]
    ELSE IF \E i \in 1..Len(m.a.resolved_pronouns) :
               Get(m.a.resolved_pronouns[i], "value", <<>>) = None
    THEN Raise(m)
    ELSE LET sorted == SortForSubstitution(m.a.resolved_pronouns)
             r == Substitute(sorted, 1, [text |-> q, applied |-> <<>>])
         IN  Log([m EXCEPT !.a = Put(Put(@, "resolved_pronouns", sorted),
                                     "resolved_query", r.text),
                           !.substituted = r.applied],
                 "substitute")

\* an analyze without the except clause
ExceptClauseAbsent(m, q) == m

\* except Exception: the error and the original query are recorded in the
\* result and the exception ends there
ExceptClause(m, q) ==
    IF m.exc
    THEN [m EXCEPT !.a = Put(Put(@, "error", "message"), "resolved_query", q),
                   !.exc = FALSE]
    ELSE m

\* the try block up to the choice of the primary intent
Scored(q, h, corefs, l) ==
    CombineStep(
        TargetsStep(
            HistoryStep(
                LocalStep(
                    LangchainStep(ResolveStep(InitialFrame, q, corefs), q, h, corefs, l),
                    q),
                h)),
        q)

\* the choices max can make for this call ("general" stands for no choice)
WinnersOf(m) ==
    IF m.exc \/ DOMAIN m.combined_scores = {} THEN {"general"}
    ELSE Winners(m.combined_scores)

\* the rest of the call
Finished(m, q, primary_intent) ==
    ExceptClause(SubstituteStep(KeywordsStep(IntentStep(m, primary_intent), q), q), q)

----------------------------------------------------------------------------
(* The inputs of a call *)

\* the sequences of at most n items of S
SeqsUpTo(S, n) == UNION {[1..k -> S] : k \in 0..n}

\* classifier responses
Raises == [raises |-> TRUE, value |-> <<>>]

Returns(v) == [raises |-> FALSE, value |-> v]

IntentResponses ==
    { Returns([intent |-> "general", confidence |-> Num((9 * Scale) \div 10)]),
      Returns([intent |-> "market_news", confidence |-> Num((9 * Scale) \div 10)]),
      Returns([intent |-> "general", confidence |-> Num((15 * Scale) \div 10)]),
      Returns([intent |-> "specific_stock", confidence |-> NotANumber]) }

NamedMaotai == [type |-> "stock_name", value |-> Maotai]

EntityResponses ==
    { Raises,
      Returns([entities |-> <<>>]),
      Returns([entities |-> <<NamedMaotai>>]),
      Returns([entities |-> <<NamedMaotai, NamedMaotai>>]) }

NoClassifier == [configured |-> FALSE, intent |-> Raises, entity |-> Raises]

Classifiers ==
    { NoClassifier, [configured |-> TRUE, intent |-> Raises, entity |-> Raises] }
    \cup { [configured |-> TRUE, intent |-> i, entity |-> e] :
              i \in IntentResponses, e \in EntityResponses }

\* histories, oldest turn first: none; one well-formed turn; two turns of
\* which the recent one names a stock in its response only, in its query and
\* its response, and not at all; a turn whose metadata is None; a turn whose
\* metadata entities carry no type; a triple instead of a pair
Histories ==
    { <<>>,
      << [query |-> GuizhouMaotai \o GuJia, response |-> Maotai] >>,
      << [query |-> GuizhouMaotai \o GuJia, response |-> GuJia],
         [query |-> GuJia, response |-> Maotai] >>,
      << [query |-> Maotai, response |-> GuJia],
         [query |-> GuizhouMaotai \o GuJia, response |-> Maotai] >>,
      << [query |-> Maotai, response |-> GuJia],
         [query |-> GuJia, response |-> GuJia] >>,
      << [query |-> GuJia, response |-> GuJia, metadata |-> [pytype |-> "NoneType"]] >>,
      << [query |-> GuJia, response |-> GuJia,
          metadata |-> [entities |-> << [name |-> Maotai] >>]] >>,
      << [pytype |-> "tuple", items |-> <<GuJia, GuJia, GuJia>>] >> }

\* coreference lists of the first family: none; one binding; a binding
\* without value; an item that is no dict
FewCoreferences ==
    { <<>>,
      << [pronoun |-> Ta, type |-> "stock", target |-> "stock",
          value |-> MaotaiCode, timestamp |-> 1] >>,
      << [pronoun |-> Ta, type |-> "stock", target |-> "stock", timestamp |-> 1] >>,
      << [pytype |-> "str"] >> }

\* bindings of the second family: a pronoun, a value (one of them holds a
\* pronoun itself) and a timestamp
Bindings ==
    { [pronoun |-> p, type |-> "stock", target |-> "stock", value |-> v, timestamp |-> t] :
          p \in {Ta, ZheGe}, v \in {Maotai, Ta \o Maotai \o GuJia}, t \in 1..MaxTime }

\* first family: the classifier, the history and malformed items vary
ClassifierInputs ==
    /\ query \in ClassifierQueries
    /\ history \in Histories
    /\ coreferences \in FewCoreferences
    /\ llm \in Classifiers

\* the members of the stored set of bindings, in any order
StoredCoreferences ==
    {cs \in SeqsUpTo(Bindings, MaxCorefs) :
        \A i, j \in 1..Len(cs) : i # j => cs[i] # cs[j]}

\* second family: the stored bindings vary, no classifier, no history
CoreferenceInputs ==
    /\ query \in CoreferenceQueries
    /\ history = <<>>
    /\ coreferences \in StoredCoreferences
    /\ llm = NoClassifier

\* third family: a query with two pronouns and one stored binding more than
\* in the second family, without classifier and with one
CrowdedInputs ==
    /\ query \in {Ta \o ZheGe, ZheGe \o Ta}
    /\ history = <<>>
    /\ coreferences \in
           {cs \in [1..(MaxCorefs + 1) -> Bindings] :
               \A i, j \in 1..Len(cs) : i # j => cs[i] # cs[j]}
    /\ llm \in { NoClassifier,
                 [ configured |-> TRUE,
                   intent |-> Returns([intent |-> "general",
                                       confidence |-> Num((9 * Scale) \div 10)]),
                   entity |-> Returns([entities |-> <<>>]) ] }

\* fourth family: the queries about the categories, alone
CategoryInputs ==
    /\ query \in CategoryQueries
    /\ history = <<>>
    /\ coreferences = <<>>
    /\ llm = NoClassifier

----------------------------------------------------------------------------
(* _load_stock_mapping: the rows of data/stock_mapping.csv added to         *)
(* entity_dict['stocks'].  A row is the list of its fields, as csv.reader   *)
(* yields it.                                                               *)

\* s.strip()
RECURSIVE Strip(_)
Strip(s) ==
    IF s # <<>> /\ Head(s) = " " THEN Strip(Tail(s))
    ELSE IF s # <<>> /\ s[Len(s)] = " " THEN Strip(SubSeq(s, 1, Len(s) - 1))
    ELSE s

\* the code without the prefix sh or sz it may carry
WithoutPrefix(code) ==
    IF Len(code) >= 2 /\ SubSeq(code, 1, 2) \in { <<"s", "h">>, <<"s", "z">> }
    THEN SubSeq(code, 3, Len(code))
    ELSE code

\* the code with the exchange suffix of the A-share rule, when it has none
WithSuffix(code) ==
    IF /\ Len(code) >= 3
       /\ SubSeq(code, Len(code) - 2, Len(code)) \in
              { <<".", "S", "S">>, <<".", "S", "Z">>, <<".", "H", "K">>, <<".", "U", "S">> }
    THEN code
    ELSE IF StartsWithAny(code, {"0", "3"}) THEN code \o <<".", "S", "Z">>
    ELSE IF StartsWithAny(code, {"6"}) THEN code \o <<".", "S", "S">>
    ELSE code

\* d[name] = code on a dict kept as a sequence of pairs in insertion order
DictPut(d, name, code) ==
    IF DictHas(d, name)
    THEN [i \in 1..Len(d) |-> IF d[i][1] = name THEN <<name, code>> ELSE d[i]]
    ELSE Append(d, <<name, code>>)

\* the stocks after one row of the file: a row of fewer than two fields is
\* passed over
StocksWithRow(d, row) ==
    IF Len(row) >= 2
    THEN DictPut(d, Strip(row[1]), WithSuffix(WithoutPrefix(Strip(row[2]))))
    ELSE d

\* the except clause left out
LoadExceptAbsent(l) == l

\* except Exception: the error is logged and the loader ends
LoadExcept(l) ==
    IF l.pc = "raised" THEN [l EXCEPT !.pc = "done", !.failed = TRUE] ELSE l

\* the rows of the files of the model: an empty line, a row of one field,
\* and rows of a name and a code: a new name (平安) with a bare code of
\* Shenzhen, with a prefixed code and spaces, and with a code of the Beijing
\* exchange; a name with a suffixed code; a built-in name with its own bare
\* code and with another code
CsvRows ==
    LET PingAn == <<"ping2", "an">>
    IN  { <<>>,
          <<PingAn>>,
          <<PingAn, <<"0", "0", "0", "0", "0", "1">> >>,
          << <<" ">> \o PingAn, <<"s", "h", "6", "0", "0", "0", "0", "0", " ">> >>,
          <<PingAn, <<"8", "3", "0", "7", "9", "9">> >>,
          <<GuJia, <<"3", "0", "0", "7", "5", "0", ".", "S", "Z">> >>,
          <<Maotai, <<"6", "0", "0", "5", "1", "9">> >>,
          <<Maotai, <<"0", "0", "0", "8", "5", "8">> >> }

\* the file: missing; one that cannot be opened; or its lines, the first of
\* which is taken for the header, with bad the position of the line whose
\* reading raises (a field above the csv field limit, or the read of the
\* block that holds an undecodable byte), 0 when there is none
StockMappingFiles ==
    { [kind |-> "missing", lines |-> <<>>, bad |-> 0],
      [kind |-> "unreadable", lines |-> <<>>, bad |-> 0] }
    \cup { f \in [kind : {"file"}, lines : SeqsUpTo(CsvRows, MaxLines), bad : 0..MaxLines] :
               f.bad <= Len(f.lines) }

----------------------------------------------------------------------------
(* The state machine: one call of analyze *)

\* a recognizer constructed without stock mapping file: the built-in stocks
Constructed ==
    /\ stock_mapping = [kind |-> "missing", lines |-> <<>>, bad |-> 0]
    /\ stocks = entity_dict_stocks
    /\ loader = [pc |-> "done", row |-> 0, failed |-> FALSE]

\* a session store without keys of the user
EmptyStore ==
    /\ conversation = <<>>
    /\ conversation_ttl = FALSE
    /\ session_coreferences = {}
    /\ now = 0
    /\ turn = 0
    /\ written = [kind |-> "none", calls |-> 0, bindings |-> <<>>]

Init ==
    /\ pc = "call"
    /\ analysis = InitialAnalysis
    /\ frame = InitialFrame
    /\ (ClassifierInputs \/ CoreferenceInputs \/ CrowdedInputs \/ CategoryInputs)
    /\ Constructed
    /\ EmptyStore

\* the results analyze(query, history, coreferences) can end with
Outcomes(m, q) ==
    {Finished(m, q, primary_intent) : primary_intent \in WinnersOf(m)}

\* one call of analyze
Analyze ==
    /\ pc = "call"
    /\ \E end \in Outcomes(Scored(query, history, coreferences, llm), query) :
           /\ analysis' = end.a
           /\ frame' = end
           /\ pc' = IF end.exc THEN "raised" ELSE "returned"
    /\ UNCHANGED <<query, history, coreferences, llm, stock_mapping, stocks, loader,
                   conversation, conversation_ttl, session_coreferences, now, turn, written>>

Next == Analyze

Spec == Init /\ [][Next]_vars

----------------------------------------------------------------------------
(* The state machine of the constructor's call of _load_stock_mapping, on   *)
(* the built-in entity_dict                                                 *)

LoaderInit ==
    /\ stock_mapping \in StockMappingFiles
    /\ stocks = entity_dict_stocks
    /\ loader = [pc |-> "start", row |-> 1, failed |-> FALSE]
    /\ pc = "call"
    /\ analysis = InitialAnalysis
    /\ frame = InitialFrame
    /\ query = <<>>
    /\ history = <<>>
    /\ coreferences = <<>>
    /\ llm = NoClassifier
    /\ EmptyStore

\* lines 167-170: the file is opened and its first line skipped; a missing
\* file is logged; open raises on an unreadable file, next(reader) on a
\* file without lines (StopIteration) and on an undecodable first line
OpenStockMapping ==
    /\ loader.pc = "start"
    /\ loader' = LoadExcept(
           IF stock_mapping.kind = "missing" THEN [loader EXCEPT !.pc = "done"]
           ELSE IF \/ stock_mapping.kind = "unreadable"
                   \/ stock_mapping.lines = <<>>
                   \/ stock_mapping.bad = 1
           THEN [loader EXCEPT !.pc = "raised"]
           ELSE [loader EXCEPT !.pc = "rows", !.row = 2])
    /\ UNCHANGED <<query, history, coreferences, llm, analysis, frame, pc,
                   stock_mapping, stocks,
                   conversation, conversation_ttl, session_coreferences, now, turn, written>>

\* lines 175-196: one turn of the loop over the rows, or its end
ReadRow ==
    /\ loader.pc = "rows"
    /\ IF loader.row > Len(stock_mapping.lines)
       THEN loader' = [loader EXCEPT !.pc = "done"] /\ UNCHANGED stocks
       ELSE IF stock_mapping.bad = loader.row
       THEN loader' = LoadExcept([loader EXCEPT !.pc = "raised"]) /\ UNCHANGED stocks
       ELSE /\ stocks' = StocksWithRow(stocks, stock_mapping.lines[loader.row])
            /\ loader' = [loader EXCEPT !.row = @ + 1]
    /\ UNCHANGED <<query, history, coreferences, llm, analysis, frame, pc, stock_mapping,
                   conversation, conversation_ttl, session_coreferences, now, turn, written>>

LoaderNext == OpenStockMapping \/ ReadRow

LoaderSpec == LoaderInit /\ [][LoaderNext]_vars

----------------------------------------------------------------------------
(* The session store of one user (RedisSessionManager) and the calls of     *)
(* process_query on it.  A turn and a binding are stored as JSON text; the  *)
(* strings and None they are made of are the same after json.loads.         *)

\* lrange(key, 0, limit - 1), reversed: the turns oldest first
get_conversation_history(conv, limit) ==
    [i \in 1..Min(limit, Len(conv)) |-> conv[Min(limit, Len(conv)) + 1 - i]]

\* lpush(key, turn), then ltrim(key, 0, max_history_rounds * 2 - 1)
store_conversation(conv, t) ==
    SubSeq(<<t>> \o conv, 1, Min(Len(conv) + 1, max_history_rounds * 2))

\* smembers: the members of the set, in an order that Redis chooses
Orders(S) ==
    {s \in [1..Cardinality(S) -> S] : \A i, j \in 1..Cardinality(S) : i # j => s[i] # s[j]}

\* the arguments of the store_coreference calls of the write-back, in the
\* order of the calls: one for each resolved pronoun, or else one for each
\* entity of a referable type
WriteBackCalls(a) ==
    IF a.resolved_pronouns # <<>>
    THEN [i \in 1..Len(a.resolved_pronouns) |->
             [ pronoun |-> Get(a.resolved_pronouns[i], "pronoun", None),
               type |-> Get(a.resolved_pronouns[i], "type", "entity"),
               target |-> Get(a.resolved_pronouns[i], "target", "stock"),
               value |-> Get(a.resolved_pronouns[i], "value", None) ]]
    ELSE LET referable ==
                 SelectSeq(a.entities,
                           LAMBDA e : Get(e, "type", None) \in
                               {"stock", "index", "company", "stock_name", "stock_code",
                                "index_name", "index_code"})
         IN  [i \in 1..Len(referable) |->
                 [ pronoun |-> Ta,
                   type |-> IF referable[i].type \in {"stock_name", "stock_code"} THEN "stock"
                            ELSE IF referable[i].type \in {"index_name", "index_code"}
                            THEN "index"
                            ELSE referable[i].type,
                   target |-> referable[i].type,
                   value |-> IF Truthy(Get(referable[i], "value", None))
                             THEN referable[i].value
                             ELSE Get(referable[i], "name", None) ]]

\* the store holds no turn of the user and either no binding or the binding
\* that an earlier mention of 贵州茅台 left
StoreInit ==
    /\ pc = "idle"
    /\ query = <<>>
    /\ history = <<>>
    /\ coreferences = <<>>
    /\ analysis = InitialAnalysis
    /\ frame = InitialFrame
    /\ llm \in { NoClassifier,
                 [ configured |-> TRUE,
                   intent |-> Returns([intent |-> "general",
                                       confidence |-> Num((9 * Scale) \div 10)]),
                   entity |-> Returns([entities |-> <<NamedMaotai>>]) ] }
    /\ Constructed
    /\ conversation = <<>>
    /\ conversation_ttl = FALSE
    /\ session_coreferences \in
           { {},
             { [ pronoun |-> Ta, type |-> "stock", target |-> "stock",
                 value |-> MaotaiCode, timestamp |-> 0 ] } }
    /\ now = 0
    /\ turn = 0
    /\ written = [kind |-> "none", calls |-> 0, bindings |-> <<>>]

\* process_query up to the call of analyze: the history (limit 10) and the
\* bindings are read; a read that finds Redis unavailable yields [].  A
\* history that is not empty has its time to live renewed.
BeginTurn ==
    /\ pc = "idle"
    /\ turn < MaxTurns
    /\ \E q \in StoreQueries, up \in [{"history", "coreferences"} -> BOOLEAN] :
           /\ query' = q
           /\ history' = IF up.history THEN get_conversation_history(conversation, 10)
                         ELSE <<>>
           /\ coreferences' \in IF up.coreferences THEN Orders(session_coreferences)
                                ELSE {<<>>}
           /\ conversation_ttl' = (conversation_ttl \/ (up.history /\ conversation # <<>>))
    /\ analysis' = InitialAnalysis
    /\ frame' = InitialFrame
    /\ pc' = "call"
    /\ turn' = turn + 1
    /\ UNCHANGED <<llm, stock_mapping, stocks, loader,
                   conversation, session_coreferences, now, written>>

\* process_query after analyze.  A simple time query stores the turn and
\* returns; otherwise the answer is built (served: that part did not raise),
\* the turn is stored and the write-back calls store_coreference.  Each store
\* call reads the clock; steps is the number of Redis commands of
\* store_conversation (lpush, ltrim, expire) that were carried out before
\* one raised or Redis was found unavailable: it returns True when all three
\* were; up[i] tells whether the i-th store_coreference found Redis
\* available.
WriteBack ==
    /\ pc = "returned"
    /\ \E served \in BOOLEAN :
           LET calls == IF analysis.is_simple_time_query \/ ~served THEN <<>>
                        ELSE WriteBackCalls(analysis)
               stores == analysis.is_simple_time_query \/ served
           IN  \E steps \in (IF stores THEN 0..3 ELSE {0}),
                  up \in [1..Len(calls) -> BOOLEAN] :
                   LET added == [i \in 1..Len(calls) |->
                                    [ pronoun |-> calls[i].pronoun,
                                      type |-> calls[i].type,
                                      target |-> calls[i].target,
                                      value |-> calls[i].value,
                                      timestamp |-> now + 1 + i ]]
                       kept == {i \in 1..Len(calls) : up[i]}
                       said == [ query |-> query, response |-> GuJia,
                                 timestamp |-> now + 1, metadata |-> <<>> ]
                   IN  /\ conversation' =
                              IF ~stores \/ steps = 0 THEN conversation
                              ELSE IF steps = 1 THEN <<said>> \o conversation
                              ELSE store_conversation(conversation, said)
                       /\ conversation_ttl' = (conversation_ttl \/ (stores /\ steps = 3))
                       /\ session_coreferences' =
                              session_coreferences \cup {added[i] : i \in kept}
                       /\ written' =
                              [ kind |-> IF calls = <<>> THEN "none"
                                         ELSE IF analysis.resolved_pronouns # <<>>
                                         THEN "resolved"
                                         ELSE "entities",
                                calls |-> Len(calls),
                                bindings |-> SelectSeq(added, LAMBDA b : b.timestamp - now - 1 \in kept) ]
                       /\ now' = now + 1 + Len(calls)
    /\ pc' = "idle"
    /\ UNCHANGED <<query, history, coreferences, llm, analysis, frame,
                   stock_mapping, stocks, loader, turn>>

\* the time to live of a key runs out
Expire ==
    /\ \/ /\ conversation # <<>>
          /\ conversation_ttl
          /\ conversation' = <<>>
          /\ conversation_ttl' = FALSE
          /\ UNCHANGED session_coreferences
       \/ /\ session_coreferences # {}
          /\ session_coreferences' = {}
          /\ UNCHANGED <<conversation, conversation_ttl>>
    /\ UNCHANGED <<query, history, coreferences, llm, analysis, frame, pc,
                   stock_mapping, stocks, loader, now, turn, written>>

\* clear_conversation: delete(conversation:{user_id}), at any time
ClearConversation ==
    /\ conversation' = <<>>
    /\ conversation_ttl' = FALSE
    /\ UNCHANGED <<query, history, coreferences, llm, analysis, frame, pc,
                   stock_mapping, stocks, loader, session_coreferences, now, turn, written>>

StoreNext == BeginTurn \/ Analyze \/ WriteBack \/ Expire \/ ClearConversation

StoreSpec == StoreInit /\ [][StoreNext]_vars

----------------------------------------------------------------------------
(* Properties of analyze.  A call has ended when pc = "returned"; analysis  *)
(* is then the dict the caller receives.                                    *)

Failed == "error" \in DOMAIN analysis

\* the positions of the bindings of pronoun p in the coreference list
BindingsOf(p) ==
    {i \in 1..Len(coreferences) :
        IsDict(coreferences[i]) /\ Get(coreferences[i], "pronoun", None) = p}

\* the combined scores of the call are all at most the threshold
NoScoreAboveThreshold ==
    /\ frame.combined
    /\ \A k \in DOMAIN frame.combined_scores : frame.combined_scores[k] <= Threshold

\* no two entries of resolved_pronouns are for the same pronoun
DistinctPronouns(resolved_pronouns) ==
    \A i, j \in 1..Len(resolved_pronouns) :
        i # j => Get(resolved_pronouns[i], "pronoun", None)
                     # Get(resolved_pronouns[j], "pronoun", None)

\* q from position i on, each occurrence of the pronoun of an entry of
\* resolved_pronouns replaced by the value of that entry, the rest kept:
\* the replacement the specification describes (section 4.6)
RECURSIVE ReplacedAtOnce(_, _, _)
ReplacedAtOnce(q, resolved_pronouns, i) ==
    IF i > Len(q) THEN <<>>
    ELSE LET here == {k \in 1..Len(resolved_pronouns) :
                         LET p == resolved_pronouns[k].pronoun
                         IN  /\ i + Len(p) - 1 <= Len(q)
                             /\ SubSeq(q, i, i + Len(p) - 1) = p}
         IN  IF here = {} THEN <<q[i]>> \o ReplacedAtOnce(q, resolved_pronouns, i + 1)
             ELSE LET k == CHOOSE k \in here : TRUE
                  IN  resolved_pronouns[k].value
                          \o ReplacedAtOnce(q, resolved_pronouns,
                                            i + Len(resolved_pronouns[k].pronoun))

\* C1: analyze never lets an exception reach its caller: whatever the query,
\* the history, the coreference list and the classifier do, the call returns
\* a result that holds primary_intent, confidence and resolved_query.
C1_AnalyzeNeverRaises ==
    pc # "call" =>
        /\ pc = "returned"
        /\ {"primary_intent", "confidence", "resolved_query"} \subseteq DOMAIN analysis

\* a call in which a statement of the try block raised, on a coreference
\* list holding an item that is no dict, and that returned its result
C1_CaughtFailure ==
    /\ pc = "returned"
    /\ Failed
    /\ \E i \in 1..Len(coreferences) : ~IsDict(coreferences[i])
    /\ analysis.resolved_query = query

\* C2: a result that carries an error field is degraded as a whole:
\* primary_intent is general, confidence is 0 and resolved_query is the
\* original query, whatever the earlier steps had written.
C2_ErrorDegradesResult ==
    (pc = "returned" /\ Failed) =>
        /\ analysis.primary_intent = "general"
        /\ analysis.confidence = Num(0)
        /\ analysis.resolved_query = query

\* C3: on every path, the entities of the result never hold two items of
\* equal (type, value).
C3_EntitiesNeverDuplicate ==
    pc = "returned" =>
        \A i, j \in 1..Len(analysis.entities) :
            i # j => EntityKey(analysis.entities[i]) # EntityKey(analysis.entities[j])

\* C4: the confidence of the result, a number, is between 0 and 1, whether
\* it comes from the local score combination or from the classifier.
C4_ConfidenceInUnitInterval ==
    (pc = "returned" /\ analysis.confidence.isnum) =>
        /\ 0 <= analysis.confidence.v
        /\ analysis.confidence.v <= Scale

\* C5 as stated: in every call, when the greatest combined score is at most
\* 0.3 (or no category scored), the result is general with confidence 0.
C5_BelowThresholdIsGeneral ==
    (pc = "returned" /\ NoScoreAboveThreshold) =>
        /\ analysis.primary_intent = "general"
        /\ analysis.confidence = Num(0)

\* C5 amended: in every call in which the classifier supplied no result,
\* when the greatest combined score is at most 0.3 (or no category scored),
\* the result is general with confidence 0.
C5_BelowThresholdIsGeneralWithoutClassifier ==
    (pc = "returned" /\ ~frame.langchain_used /\ NoScoreAboveThreshold) =>
        /\ analysis.primary_intent = "general"
        /\ analysis.confidence = Num(0)

\* a call without a classifier result in which a category scored, but none
\* above the threshold, and that ended general with confidence 0
C5_ScoredBelowThreshold ==
    /\ pc = "returned"
    /\ ~frame.langchain_used
    /\ NoScoreAboveThreshold
    /\ \E k \in DOMAIN frame.combined_scores : frame.combined_scores[k] > 0
    /\ analysis.primary_intent = "general"
    /\ analysis.confidence = Num(0)

\* C6: when the query holds one pronoun and the list holds two or more
\* bindings of it, their timestamps pairwise distinct, the pronoun is
\* resolved to the value of the binding of greatest timestamp, wherever that
\* binding stands in the list.
C6_MostRecentBindingWins ==
    (pc = "returned" /\ Len(DetectedPronouns(query)) = 1) =>
        LET p == DetectedPronouns(query)[1]
            bs == BindingsOf(p)
        IN  (/\ Cardinality(bs) >= 2
             /\ \A i, j \in bs :
                    i # j => Get(coreferences[i], "timestamp", 0)
                                 # Get(coreferences[j], "timestamp", 0))
            => \A i \in bs :
                   (\A j \in bs : Get(coreferences[j], "timestamp", 0)
                                      <= Get(coreferences[i], "timestamp", 0))
                   => /\ Len(analysis.resolved_pronouns) = 1
                      /\ analysis.resolved_pronouns[1].pronoun = p
                      /\ analysis.resolved_pronouns[1].value = coreferences[i].value

\* a call on a query with one pronoun and a list whose first binding of it
\* is the older one, of another value: the second binding was taken
C6_LaterBindingTaken ==
    /\ pc = "returned"
    /\ DetectedPronouns(query) = <<Ta>>
    /\ Len(coreferences) = 2
    /\ BindingsOf(Ta) = {1, 2}
    /\ coreferences[1].timestamp < coreferences[2].timestamp
    /\ coreferences[1].value # coreferences[2].value
    /\ Len(analysis.resolved_pronouns) = 1
    /\ analysis.resolved_pronouns[1].value = coreferences[2].value

\* C7: resolved_pronouns holds at most one entry per distinct pronoun, also
\* when the query holds several different pronouns.
C7_OneEntryPerPronoun ==
    pc = "returned" => DistinctPronouns(analysis.resolved_pronouns)

\* C8: resolved_query is the original query with every occurrence of each
\* resolved pronoun replaced by the value of that pronoun and nothing else
\* changed: text inserted for one pronoun is not rewritten for another.
C8_SubstitutionRewritesPronounsOnly ==
    (/\ pc = "returned"
     /\ ~Failed
     /\ analysis.resolved_pronouns # <<>>
     /\ DistinctPronouns(analysis.resolved_pronouns))
    => analysis.resolved_query = ReplacedAtOnce(query, analysis.resolved_pronouns, 1)

\* C9: the substitutions of a call are applied in descending order of the
\* length of the pronoun.
C9_LongerPronounsFirst ==
    pc = "returned" =>
        \A i, j \in 1..Len(frame.substituted) :
            i < j => Len(frame.substituted[i]) >= Len(frame.substituted[j])

\* C10: when the classifier returned a result, primary_intent, confidence
\* and entities of the result of analyze are the ones it supplied: no local
\* score replaces the intent or the confidence of the classifier.
C10_ClassifierResultKept ==
    (pc = "returned" /\ ~Failed /\ frame.langchain_used) =>
        /\ analysis.primary_intent = frame.langchain_result.primary_intent
        /\ analysis.confidence = frame.langchain_result.confidence
        /\ analysis.entities = frame.langchain_result.entities

\* the history items are well formed: pairs, or dicts whose metadata, when
\* there is one, is a dict whose entities hold a type and a value
WellFormedHistory ==
    \A i \in 1..Len(history) :
        /\ HistoryItemOk(history[i])
        /\ (IsDict(history[i]) /\ "metadata" \in DOMAIN history[i]) =>
               /\ IsDict(history[i].metadata)
               /\ \A k \in 1..Len(Get(history[i].metadata, "entities", <<>>)) :
                      {"type", "value"} \subseteq DOMAIN history[i].metadata.entities[k]

\* the classifier was invoked in the call and the invocation failed: the
\* intent chain or the entity chain raised (an error, a timeout, output that
\* does not parse) or answered with a malformed response
ClassifierFailed ==
    /\ frame.llm_calls >= 1
    /\ \/ llm.intent.raises
       \/ ~IsDict(llm.intent.value)
       \/ ~Get(llm.intent.value, "confidence", Num(0)).isnum
       \/ llm.entity.raises
       \/ ~IsDict(llm.entity.value)

\* C11: when a call of the classifier fails (an exception, a timeout, a
\* malformed response, in the intent step or in the entity step), on a well
\* formed history, neither chain is invoked a second time, and analyze
\* returns the result of the local pipeline, without error field.
C11_ClassifierFailureFallsBack ==
    (pc = "returned" /\ WellFormedHistory /\ ClassifierFailed) =>
        /\ frame.llm_calls <= 2
        /\ ~frame.langchain_used
        /\ frame.scored
        /\ ~Failed

----------------------------------------------------------------------------
(* The call of analyze with its blocking step visible.  intent_chain.invoke *)
(* and entity_chain.invoke (lines 536 and 544) are network calls on the     *)
(* ChatOpenAI client of lines 228-233, which is built without a timeout,    *)
(* and they are invoked without one: analyze leaves the invocation only     *)
(* when the classifier answers or the client raises.  pc = "invoke" is the  *)
(* call blocked there.                                                      *)

\* the call gets as far as the chain invocations
InvokesClassifier(q, h, corefs, l) ==
    \E end \in Outcomes(Scored(q, h, corefs, l), q) : end.llm_calls >= 1

\* analyze from its start to intent_chain.invoke
InvokeClassifier ==
    /\ pc = "call"
    /\ InvokesClassifier(query, history, coreferences, llm)
    /\ pc' = "invoke"
    /\ UNCHANGED <<query, history, coreferences, llm, analysis, frame,
                   stock_mapping, stocks, loader,
                   conversation, conversation_ttl, session_coreferences, now, turn, written>>

\* the classifier answers, or the client raises: analyze runs to its end
ClassifierAnswers ==
    /\ pc = "invoke"
    /\ \E end \in Outcomes(Scored(query, history, coreferences, llm), query) :
           /\ analysis' = end.a
           /\ frame' = end
           /\ pc' = IF end.exc THEN "raised" ELSE "returned"
    /\ UNCHANGED <<query, history, coreferences, llm, stock_mapping, stocks, loader,
                   conversation, conversation_ttl, session_coreferences, now, turn, written>>

\* a call that does not get to the chain invocations
AnalyzeLocally ==
    /\ ~InvokesClassifier(query, history, coreferences, llm)
    /\ Analyze

BlockingNext == InvokeClassifier \/ ClassifierAnswers \/ AnalyzeLocally

\* a step of BlockingNext that analyze takes by itself: one from its start
\* (InvokeClassifier or AnalyzeLocally, one of which is enabled there)
Proceeds == pc = "call" /\ pc' \in {"invoke", "returned", "raised"}

\* the steps of analyze itself are taken; nothing makes the classifier answer
BlockingSpec == Init /\ [][BlockingNext]_vars /\ WF_pc(Proceeds)

\* C12: every analyze call eventually returns, also when the classifier
\* never answers: the classifier call carries a deadline, after whose expiry
\* it is abandoned and the rest of the pipeline runs to completion.
C12_AnalyzeEventuallyReturns == <>(pc = "returned")

\* the names of entity_dict among the words of q, in the order of the query
NamedIn(q) ==
    SelectSeq([i \in 1..Len(Cut(q)) |-> Cut(q)[i].word],
              LAMBDA w : DictHas(entity_dict_stocks, w) \/ DictHas(entity_dict_indices, w))

\* C13 (scenario A): for a query without pronoun that names exactly one
\* stock of the entity dictionary and matches a keyword and a pattern of
\* specific_stock and of no other category, with empty history and empty
\* coreferences and the local pipeline run, the entities of the result are
\* exactly one stock entity, its value the code and its name the name the
\* dictionary holds, and primary_intent is specific_stock.
C13_NamedStockIsSpecificStock ==
    (/\ pc = "returned"
     /\ DetectedPronouns(query) = <<>>
     /\ history = <<>>
     /\ coreferences = <<>>
     /\ frame.scored
     /\ DOMAIN KeywordScoresOf[query] = {"specific_stock"}
     /\ DOMAIN PatternScoresOf[query] = {"specific_stock"}
     /\ Len(NamedIn(query)) = 1
     /\ DictHas(entity_dict_stocks, NamedIn(query)[1]))
    => /\ analysis.primary_intent = "specific_stock"
       /\ Len(analysis.entities) = 1
       /\ analysis.entities[1].type = "stock"
       /\ analysis.entities[1].value = DictGet(entity_dict_stocks, NamedIn(query)[1])
       /\ analysis.entities[1].name = NamedIn(query)[1]

\* the call on '贵州茅台股价' without classifier, history and coreferences:
\* one stock entity 600519.SS named 贵州茅台, and specific_stock
C13_MaotaiPriceQuery ==
    /\ pc = "returned"
    /\ query = GuizhouMaotai \o GuJia
    /\ history = <<>>
    /\ coreferences = <<>>
    /\ ~llm.configured
    /\ frame.scored
    /\ analysis.primary_intent = "specific_stock"
    /\ Len(analysis.entities) = 1
    /\ analysis.entities[1].value = MaotaiCode
    /\ analysis.entities[1].name = GuizhouMaotai

----------------------------------------------------------------------------
(* Scenario D: the stock mapping file                                       *)

\* C14: whatever the stock mapping file is (missing, without lines,
\* unreadable, with lines of fewer than two fields, or failing in the middle),
\* _load_stock_mapping never ends by raising, every built-in name stays in
\* entity_dict['stocks'], and every row of two fields read so far is in it
\* under its stripped name, with the normalized code of the last such row.
C14_LoadingKeepsBuiltInNames ==
    /\ loader.pc # "raised"
    /\ \A i \in 1..Len(entity_dict_stocks) : DictHas(stocks, entity_dict_stocks[i][1])
    /\ \A k \in 2..(loader.row - 1) :
           Len(stock_mapping.lines[k]) >= 2 =>
               /\ DictHas(stocks, Strip(stock_mapping.lines[k][1]))
               /\ (\A j \in (k + 1)..(loader.row - 1) :
                       \/ Len(stock_mapping.lines[j]) < 2
                       \/ Strip(stock_mapping.lines[j][1]) # Strip(stock_mapping.lines[k][1]))
                  => DictGet(stocks, Strip(stock_mapping.lines[k][1]))
                         = WithSuffix(WithoutPrefix(Strip(stock_mapping.lines[k][2])))

\* the loader has ended on a line it could not read, after a row that added a
\* name to the built-in ones
C14_RowLoadedBeforeFailure ==
    /\ loader.pc = "done"
    /\ loader.failed
    /\ loader.row = 3
    /\ stock_mapping.bad = 3
    /\ Len(stock_mapping.lines[2]) = 2
    /\ ~DictHas(entity_dict_stocks, Strip(stock_mapping.lines[2][1]))
    /\ DictHas(stocks, Strip(stock_mapping.lines[2][1]))
    /\ \A i \in 1..Len(entity_dict_stocks) : DictHas(stocks, entity_dict_stocks[i][1])

----------------------------------------------------------------------------
(* The session store *)

\* C15: the turns stored for the user, and the turns that
\* get_conversation_history returned to process_query, are never more than
\* max_history_rounds.
C15_HistoryWithinMaxRounds ==
    /\ Len(conversation) <= max_history_rounds
    /\ Len(history) <= max_history_rounds

\* C16: a write-back for a result with resolved pronouns whose store calls
\* all succeeded has added one binding for each entry of resolved_pronouns,
\* in their order, and each added binding has the pronoun, the type, the
\* target and the value of a binding that was read from the store.
C16_WriteBackCopiesSelectedBindings ==
    (pc = "idle" /\ written.kind = "resolved" /\ Len(written.bindings) = written.calls) =>
        /\ Len(written.bindings) = Len(analysis.resolved_pronouns)
        /\ \A i \in 1..Len(written.bindings) :
               /\ written.bindings[i].pronoun = analysis.resolved_pronouns[i].pronoun
               /\ \E k \in 1..Len(coreferences) :
                      /\ coreferences[k].pronoun = written.bindings[i].pronoun
                      /\ coreferences[k].type = written.bindings[i].type
                      /\ coreferences[k].target = written.bindings[i].target
                      /\ coreferences[k].value = written.bindings[i].value

----------------------------------------------------------------------------
(* Resolution and delegation *)

\* C18: for a query that contains none of the five pronouns, the resolver
\* returns the empty list without raising, whatever the bindings are, and the
\* result of analyze has no resolved pronoun and the original query as its
\* resolved_query, whatever the history is and also when the call failed.
C18_NoPronounNoResolution ==
    (pc = "returned" /\ \A i \in 1..Len(PRONOUNS) : ~Contains(query, PRONOUNS[i])) =>
        /\ _resolve_pronouns_with_coreferences(query, coreferences)
               = [raised |-> FALSE, value |-> <<>>]
        /\ frame.resolved_entities = <<>>
        /\ analysis.resolved_pronouns = <<>>
        /\ analysis.resolved_query = query

\* a query that names a stock, with a binding of '它' stored and a turn in
\* the history
C18_StockQueryWithBindingStored ==
    /\ pc = "returned"
    /\ query = Maotai \o GuJia
    /\ Len(coreferences) = 1
    /\ IsDict(coreferences[1])
    /\ Get(coreferences[1], "value", None) = MaotaiCode
    /\ history # <<>>
    /\ ~Failed
    /\ analysis.resolved_pronouns = <<>>
    /\ analysis.resolved_query = query

\* C19: when every stored binding is well formed, each detected pronoun that
\* has a binding is in resolved_pronouns with the value of a binding of its
\* own that no binding of the same pronoun is more recent than.
C19_EachPronounItsMostRecentBinding ==
    (/\ pc = "returned"
     /\ \A k \in 1..Len(coreferences) :
            /\ IsDict(coreferences[k])
            /\ {"pronoun", "value", "timestamp"} \subseteq DOMAIN coreferences[k])
    => \A i \in 1..Len(DetectedPronouns(query)) :
           BindingsOf(DetectedPronouns(query)[i]) # {} =>
               \E n \in 1..Len(analysis.resolved_pronouns),
                  k \in BindingsOf(DetectedPronouns(query)[i]) :
                   /\ analysis.resolved_pronouns[n].pronoun = coreferences[k].pronoun
                   /\ analysis.resolved_pronouns[n].value = coreferences[k].value
                   /\ \A j \in BindingsOf(DetectedPronouns(query)[i]) :
                          coreferences[j].timestamp <= coreferences[k].timestamp

\* C20: with a classifier configured and well-formed bindings, a call in
\* which some detected pronoun got no binding from the store invokes the
\* classifier, and does so before anything but the resolution.
C20_UnresolvedPronounIsDelegated ==
    (/\ pc = "returned"
     /\ llm.configured
     /\ \A k \in 1..Len(coreferences) : IsDict(coreferences[k])
     /\ \E i \in 1..Len(DetectedPronouns(query)) :
            \A n \in 1..Len(frame.resolved_entities) :
                frame.resolved_entities[n].pronoun # DetectedPronouns(query)[i])
    => \E i \in 1..Len(frame.trace) :
           /\ frame.trace[i] = "langchain"
           /\ \A j \in 1..(i - 1) : frame.trace[j] = "resolve"

----------------------------------------------------------------------------
(* The history scan and the targets *)

\* C21: the history scan runs only in a call with a detected pronoun, no
\* entity from the store, none from the classifier and none from the local
\* extraction; and after a scan of a well-formed history in a call that did
\* not fail, the entities of the result are those of the most recent turn
\* that yields any (from its metadata, else from its query, else from its
\* response), or none when no turn yields any.
C21_HistoryScanTakesMostRecentTurn ==
    (pc = "returned" /\ \E n \in 1..Len(frame.trace) : frame.trace[n] = "history") =>
        /\ \E i \in 1..Len(PRONOUNS) : Contains(query, PRONOUNS[i])
        /\ frame.resolved_entities = <<>>
        /\ frame.langchain_used => frame.langchain_result.entities = <<>>
        /\ frame.scored => EntitiesOf[query] = <<>>
        /\ (WellFormedHistory /\ ~Failed) =>
               LET Yields(i) ==
                       \/ IsDict(history[i]) /\ "metadata" \in DOMAIN history[i]
                              /\ Get(history[i].metadata, "entities", <<>>) # <<>>
                       \/ EntitiesOf[HistoryItemTexts(history[i])[1]] # <<>>
                       \/ EntitiesOf[HistoryItemTexts(history[i])[2]] # <<>>
                   yielding == {i \in 1..Len(history) : Yields(i)}
               IN  IF yielding = {} THEN analysis.entities = <<>>
                   ELSE LET k == CHOOSE i \in yielding : \A j \in yielding : j <= i
                        IN  analysis.entities =
                                IF /\ IsDict(history[k])
                                   /\ "metadata" \in DOMAIN history[k]
                                   /\ Get(history[k].metadata, "entities", <<>>) # <<>>
                                THEN history[k].metadata.entities
                                ELSE IF EntitiesOf[HistoryItemTexts(history[k])[1]] # <<>>
                                THEN EntitiesOf[HistoryItemTexts(history[k])[1]]
                                ELSE EntitiesOf[HistoryItemTexts(history[k])[2]]

\* a pronoun without binding and without classifier: the scan passes the
\* recent turn, which names nothing, and takes the stock of the older turn
C21_OlderTurnSupplies ==
    /\ pc = "returned"
    /\ query = Ta \o GuJia
    /\ ~llm.configured
    /\ coreferences = <<>>
    /\ Len(history) = 2
    /\ EntitiesOf[history[2].query] = <<>>
    /\ EntitiesOf[history[2].response] = <<>>
    /\ \E n \in 1..Len(frame.trace) : frame.trace[n] = "history"
    /\ Len(analysis.entities) = 1
    /\ analysis.entities[1].name = Maotai

\* C22: in a call that did not fail, target_indices derived from the index
\* entities of the result stays what the extraction made it: the values of
\* the entities of type index, whatever category won.
C22_DerivedTargetIndicesKept ==
    (/\ pc = "returned"
     /\ ~Failed
     /\ frame.scored
     /\ \A i \in 1..Len(analysis.entities) :
            {"type", "value"} \subseteq DOMAIN analysis.entities[i]
     /\ \E i \in 1..Len(analysis.entities) : analysis.entities[i].type = "index")
    => analysis.target_indices = ValuesOfType(analysis.entities, "index")

----------------------------------------------------------------------------
(* The exchange suffix *)

\* C23: every row read so far whose code is six digits, with or without the
\* prefix sh or sz, and whose name no later row has, is stored with the six
\* digits followed by .SZ when they start with 0 or 3 and by .SS otherwise.
C23_SixDigitCodesGetSuffix ==
    \A k \in 2..(loader.row - 1) :
        (/\ Len(stock_mapping.lines[k]) >= 2
         /\ Len(WithoutPrefix(Strip(stock_mapping.lines[k][2]))) = 6
         /\ IsDigitStr(WithoutPrefix(Strip(stock_mapping.lines[k][2])))
         /\ \A j \in (k + 1)..(loader.row - 1) :
                \/ Len(stock_mapping.lines[j]) < 2
                \/ Strip(stock_mapping.lines[j][1]) # Strip(stock_mapping.lines[k][1]))
        => DictGet(stocks, Strip(stock_mapping.lines[k][1])) =
               WithoutPrefix(Strip(stock_mapping.lines[k][2]))
                   \o (IF StartsWithAny(WithoutPrefix(Strip(stock_mapping.lines[k][2])),
                                        {"0", "3"})
                       THEN <<".", "S", "Z">> ELSE <<".", "S", "S">>)

\* C24: the value of an entity that the numeric heuristic of the extraction
\* made of a bare code of six digits is the code with the suffix that the
\* loader gives to the same code.
C24_ExtractorSuffixIsLoaderSuffix ==
    (pc = "returned" /\ ~Failed) =>
        \A i \in 1..Len(analysis.entities) :
            (/\ Get(analysis.entities[i], "source", None) = "digits"
             /\ Len(query) = 6
             /\ IsDigitStr(query))
            => analysis.entities[i].value = WithSuffix(query)

----------------------------------------------------------------------------
(* Keyword scoring *)

\* C25: the keyword scores of a call that ran the local pipeline are, for
\* every category with a keyword that the query contains, the number of its
\* keywords that the query contains divided by the number of its keywords and
\* multiplied by its priority, and no score for the other categories.
C25_KeywordScoreCountsEveryKeyword ==
    (pc = "returned" /\ frame.scored) =>
        frame.keyword_scores = KeywordScoring(intent_patterns, query)

----------------------------------------------------------------------------
(* Order of the bindings *)

\* C29: for well-formed bindings that are all different, the resolution of
\* the call is the resolution of every other order of the same bindings.
C29_ResolutionIgnoresOrder ==
    (/\ pc = "returned"
     /\ \A k \in 1..Len(coreferences) :
            /\ IsDict(coreferences[k])
            /\ {"pronoun", "value", "timestamp"} \subseteq DOMAIN coreferences[k]
     /\ \A i, j \in 1..Len(coreferences) : i # j => coreferences[i] # coreferences[j])
    => \A cs \in Orders({coreferences[k] : k \in 1..Len(coreferences)}) :
           /\ _resolve_pronouns_with_coreferences(query, cs).value = frame.resolved_entities
           /\ \A end \in Outcomes(Scored(query, history, cs, llm), query) :
                  /\ end.a.resolved_pronouns = analysis.resolved_pronouns
                  /\ end.a.resolved_query = analysis.resolved_query

----------------------------------------------------------------------------
(* The prompt engine *)

\* PromptEngine.construct_prompt, step 1: the resolved_query it stores in
\* intent_analysis, from the query it is given
construct_prompt(q, intent_analysis) ==
    IF Get(intent_analysis, "resolved_pronouns", <<>>) = <<>> THEN q
    ELSE Substitute(SortForSubstitution(intent_analysis.resolved_pronouns), 1,
                    [text |-> q, applied |-> <<>>]).text

\* C30: the substitution of construct_prompt leaves the resolved_query of
\* a successful analysis unchanged.
C30_SubstitutionIsIdempotent ==
    (pc = "returned" /\ ~Failed /\ "resolved_query" \in DOMAIN analysis) =>
        construct_prompt(analysis.resolved_query, analysis) = analysis.resolved_query

----------------------------------------------------------------------------
(* Clearing and storing the conversation *)

\* C27: after clear_conversation, whatever get_coreferences returns resolves
\* no pronoun of a later query of the user.
C27_ClearLeavesNoBinding ==
    [][ClearConversation =>
           \A cs \in Orders(session_coreferences') :
               _resolve_pronouns_with_coreferences(Ta \o GuJia, cs).value = <<>>]_vars

\* C28: the store_conversation of a write-back either leaves the stored
\* conversation as it was or leaves the turn stored, the list trimmed and
\* the key with a time to live, and no conversation key holds a turn
\* without a time to live.
C28_StoreConversationAllOrNothing ==
    /\ [](conversation # <<>> => conversation_ttl)
    /\ [][WriteBack =>
              \/ conversation' = conversation
              \/ /\ conversation'[1].query = query
                 /\ conversation'[1].timestamp = now + 1
                 /\ Len(conversation') <= max_history_rounds * 2
                 /\ conversation_ttl']_vars

----------------------------------------------------------------------------
(* Two calls of process_query of one user at the same time *)

\* a second process_query call of the user, from its reads to the end of its
\* write-back, while the first call is anywhere between its own steps: its
\* query names its entities itself, it is served and Redis is available to it
OtherTurn ==
    /\ turn < MaxTurns
    /\ \E q \in {x \in StoreQueries : DetectedPronouns(x) = <<>>},
          cs \in Orders(session_coreferences) :
           \E end \in Outcomes(Scored(q, get_conversation_history(conversation, 10),
                                      cs, llm), q) :
               LET calls == IF end.a.is_simple_time_query THEN <<>>
                            ELSE WriteBackCalls(end.a)
               IN  /\ conversation' =
                          store_conversation(conversation,
                              [ query |-> q, response |-> GuJia,
                                timestamp |-> now + 1, metadata |-> <<>> ])
                   /\ session_coreferences' =
                          session_coreferences \cup
                              { [ pronoun |-> calls[i].pronoun,
                                  type |-> calls[i].type,
                                  target |-> calls[i].target,
                                  value |-> calls[i].value,
                                  timestamp |-> now + 1 + i ] : i \in 1..Len(calls) }
                   /\ now' = now + 1 + Len(calls)
    /\ conversation_ttl' = TRUE
    /\ turn' = turn + 1
    /\ UNCHANGED <<query, history, coreferences, llm, analysis, frame, pc,
                   stock_mapping, stocks, loader, written>>

InterleavedNext == StoreNext \/ OtherTurn

InterleavedSpec == StoreInit /\ [][InterleavedNext]_vars

\* C26: when a call has written back the pronouns it resolved, no binding
\* that another call stored after this call had read the bindings is older
\* than the written copy of a different referent of the same pronoun.
C26_WriteBackDoesNotOutrankLaterMention ==
    (/\ pc = "idle"
     /\ written.kind = "resolved"
     /\ Len(written.bindings) = written.calls)
    => \A b \in session_coreferences :
           (\A k \in 1..Len(coreferences) : coreferences[k] # b) =>
               \A i \in 1..Len(written.bindings) :
                   (/\ written.bindings[i] # b
                    /\ written.bindings[i].pronoun = b.pronoun
                    /\ written.bindings[i].value # b.value)
                   => written.bindings[i].timestamp < b.timestamp

====
